---- MODULE Spec2Model ----
(***************************************************************************)
(* Pomodoro timer: the countdown engine (hooks/use-timer, kept in          *)
(* src/src/hooks/use-list-manager.ts from line 108 on) and the day-keyed   *)
(* task scheduler (src/src/hooks/use-scheduler.ts).                        *)
(*                                                                         *)
(* Both are React hooks.  One action of the model is one event handler (or *)
(* one timer callback) together with the renders and effects it causes:    *)
(* the state setters of the handler are applied, the component renders,    *)
(* every effect whose dependencies changed runs in declaration order, and  *)
(* the state the effects set is rendered again, until nothing changes.     *)
(* Values of useState are read from the render an effect belongs to;       *)
(* values of useRef are read and written in place.                         *)
(*                                                                         *)
(* Seconds and epoch milliseconds are integers; the numbers of the         *)
(* settings are fixed-point numbers.                                       *)
(***************************************************************************)
EXTENDS Integers, Sequences, FiniteSets, TLC

VARIABLES
    \* useTimer: useState
    settings, mode, isRunning, timeLeft, completedFocusSessions, sessionEvent,
    \* useTimer: useRef
    focusCounterRef, sessionStartRef, sessionDurationRef, timeLeftRef,
    \* useScheduler: useState
    schedule, selectedDayKey, todayKey,
    \* environment: Date.now(), the ids handed out by generateId, the time zone
    now, nextId, tzOffset,
    \* history: the operation of the last step, the events it handed to
    \* setSessionEvent and to logSession, the seconds the countdown has run in
    \* the current interval (ran) and had run when the last event was emitted
    \* (ranAtEmit), the transitions out of focus since the last reset, the user
    \* operations so far, the arguments of the last operation
    lastOp, emitted, logged, ran, ranAtEmit, focusExits, ops, lastArg,
    \* localStorage: the text under each key, and whether setItem throws
    storage, storageFails,
    \* useTimer and useScheduler: useState of the two hydration flags
    hydrated, scheduleHydrated,
    \* React: the effects of the render that followed the load have run; an
    \* effect threw and the component tree was unmounted; the updates of
    \* setSchedule that wait for the next render
    mounted, crashed, queue,
    \* history: the calls of setItem of the last step
    written,
    \* useTimer: the handle in intervalRef (Null: none), and the countdown
    \* intervals that setInterval made and clearInterval has not cleared
    intervalRef, intervals,
    \* TaskTracker: the display intervals not cleared, useState of currentTime
    \* and of the edit form, and the calls the last submit made on its props
    displayIntervals, currentTime, editing, requests,
    \* useKeyboardShortcut: its arguments keys and enabled, sequenceRef, the
    \* time at which the pending timeout of timeoutRef is due (Null: none),
    \* and whether the last key press called the callback
    shortcutKeys, enabled, sequenceRef, timeoutRef, fired

timerVars == <<settings, mode, isRunning, timeLeft, completedFocusSessions,
               sessionEvent, focusCounterRef, sessionStartRef,
               sessionDurationRef, timeLeftRef, intervalRef, intervals>>
schedVars == <<schedule, selectedDayKey, todayKey>>
envVars == <<now, nextId, tzOffset>>
histVars == <<lastOp, emitted, logged, ran, ranAtEmit, focusExits, ops, lastArg>>
storeVars == <<storage, storageFails, hydrated, scheduleHydrated, mounted,
               crashed, written>>
trackerVars == <<displayIntervals, currentTime, editing, requests>>
keyVars == <<shortcutKeys, enabled, sequenceRef, timeoutRef, fired>>
uiVars == <<trackerVars, keyVars>>
vars == <<timerVars, schedVars, envVars, histVars, storeVars, queue, uiVars>>

----------------------------------------------------------------------------
(* Bounds of the model                                                     *)

\* user operations on the timer in one run
MaxUserOps == 4
\* completed focus sessions counted in one run
MaxFocusCount == 3
\* the history variables ran and ranAtEmit saturate here
MaxRan == 3

----------------------------------------------------------------------------
(* Helpers                                                                 *)

Min(a, b) == IF a < b THEN a ELSE b
Max(a, b) == IF a > b THEN a ELSE b

\* null of a number | null or string | null field
Null == -1

----------------------------------------------------------------------------
(* Countdown timer engine: settings                                        *)

TimerModes == {"focus", "break", "long-break"}

\* A number of the settings is held in fixed point: the integer v is the
\* number v / Scale, so that half a minute is a value of the model.
Scale == 2
\* the whole number n
Num(n) == n * Scale
\* the integer that the whole number v is
Whole(v) == v \div Scale

\* NaN, Infinity and -Infinity: three values that are no finite number
NaN == -1000001
PosInfinity == 1000000
NegInfinity == -1000000
\* undefined: the read of a field that is missing
Undefined == -1000002

\* the strings a settings field may be given instead of a number
Texts == {"abc", "3"}

\* the strings as ToString writes them
TextStrings == {ToString(t) : t \in Texts}

\* typeof value === "string"
isString(value) == ToString(value) \in TextStrings

\* Number(value): the number a string spells, NaN when it spells none
Number(value) ==
    IF isString(value)
    THEN IF value = "3" THEN Num(3) ELSE NaN
    ELSE value

\* Number.isFinite(value): false of everything that is not a number
isFinite(value) ==
    /\ ~isString(value)
    /\ value \notin {NaN, PosInfinity, NegInfinity, Undefined}

DEFAULT_SETTINGS ==
    [focusMinutes |-> Num(25), breakMinutes |-> Num(5),
     longBreakMinutes |-> Num(15),
     enableLongBreak |-> TRUE, longBreakInterval |-> Num(4),
     soundEnabled |-> TRUE, notificationsEnabled |-> FALSE]

MINUTES_FALLBACK == 1

SecondsPerMinute == 60

\* Math.round: the nearest whole number, a half going up
Round(value) == Num((2 * value + Scale) \div (2 * Scale))

\* Number.isFinite(numeric) && numeric > 0 ? numeric : fallback
sanitizeNumber(value, fallback) ==
    LET numeric == Number(value)
    IN  IF isFinite(numeric) /\ numeric > 0 THEN numeric ELSE fallback

\* the fields of TimerSettings that are flags
FlagFields == {"enableLongBreak", "soundEnabled", "notificationsEnabled"}

\* typeof value === "boolean"
isBoolean(value) == ToString(value) \in {"TRUE", "FALSE"}

\* typeof value === "boolean" ? value : fallback
sanitizeFlag(value, fallback) == IF isBoolean(value) THEN value ELSE fallback

sanitizeSettings(s) ==
    [focusMinutes |-> sanitizeNumber(s.focusMinutes, DEFAULT_SETTINGS.focusMinutes),
     breakMinutes |-> sanitizeNumber(s.breakMinutes, DEFAULT_SETTINGS.breakMinutes),
     longBreakMinutes |->
         sanitizeNumber(s.longBreakMinutes, DEFAULT_SETTINGS.longBreakMinutes),
     enableLongBreak |->
         sanitizeFlag(s.enableLongBreak, DEFAULT_SETTINGS.enableLongBreak),
     longBreakInterval |->
         Max(Num(1),
             Round(IF isFinite(s.longBreakInterval)
                   THEN Number(s.longBreakInterval)
                   ELSE DEFAULT_SETTINGS.longBreakInterval)),
     soundEnabled |-> sanitizeFlag(s.soundEnabled, DEFAULT_SETTINGS.soundEnabled),
     notificationsEnabled |->
         sanitizeFlag(s.notificationsEnabled, DEFAULT_SETTINGS.notificationsEnabled)]

\* Math.max(MINUTES_FALLBACK, Math.round(value))
clampMinutes(value) == Max(Num(MINUTES_FALLBACK), Round(value))

\* whole minutes times 60: a whole number of seconds
getDurationForMode(st, targetMode) ==
    CASE targetMode = "focus" ->
            Whole(clampMinutes(st.focusMinutes)) * SecondsPerMinute
      [] targetMode = "break" ->
            Whole(clampMinutes(st.breakMinutes)) * SecondsPerMinute
      [] targetMode = "long-break" ->
            Whole(clampMinutes(st.longBreakMinutes)) * SecondsPerMinute
      [] OTHER ->
            Whole(clampMinutes(DEFAULT_SETTINGS.focusMinutes)) * SecondsPerMinute

\* { ...previous, ...partial }
Merge(previous, partial) ==
    [f \in DOMAIN previous |->
        IF f \in DOMAIN partial THEN partial[f] ELSE previous[f]]

\* the updater of setSettings in updateSettings
mergeSettings(previous, partial) ==
    Merge(previous, sanitizeSettings(Merge(previous, partial)))

----------------------------------------------------------------------------
(* Countdown timer engine: the mode transition                             *)

\* sessionEvent = null
NullEvent ==
    [mode |-> "null", startedAt |-> 0, endedAt |-> 0, scheduledDuration |-> 0,
     elapsedSeconds |-> 0, interrupted |-> FALSE]

\* elapsedOf without Math.max(0, ...)
elapsedOfUnclamped(scheduledDuration, left) ==
    Min(scheduledDuration, scheduledDuration - left)

\* Math.min(scheduledDuration, Math.max(0, scheduledDuration - timeLeftRef.current))
elapsedOf(scheduledDuration, left) ==
    Min(scheduledDuration, Max(0, scheduledDuration - left))

makeSessionEvent(previousMode, startedAt, endedAt, scheduledDuration, left) ==
    LET elapsedSeconds == elapsedOf(scheduledDuration, left)
    IN  [mode |-> previousMode, startedAt |-> startedAt, endedAt |-> endedAt,
         scheduledDuration |-> scheduledDuration,
         elapsedSeconds |-> elapsedSeconds,
         interrupted |-> elapsedSeconds < scheduledDuration]

\* nextModeAfter counting the sessions completed before this one
nextModeAfterOffByOne(st, previousMode, newCount) ==
    IF previousMode = "focus"
    THEN IF /\ st.enableLongBreak
            /\ (newCount - 1) % Whole(clampMinutes(st.longBreakInterval)) = 0
         THEN "long-break"
         ELSE "break"
    ELSE "focus"

\* the mode after previousMode, newCount being the focus counter plus one
nextModeAfter(st, previousMode, newCount) ==
    IF previousMode = "focus"
    THEN IF /\ st.enableLongBreak
            /\ newCount % Whole(clampMinutes(st.longBreakInterval)) = 0
         THEN "long-break"
         ELSE "break"
    ELSE "focus"

\* The engine as a record w: the useState values, the useRef values, and the
\* bookkeeping of one step: evNew (setSessionEvent was given a new object
\* since the last render), emitted (the events given to setSessionEvent) and
\* logged (the events given to logSession).
\* transitionMode as written in render r, applied to w at time t.
transitionMode(r, w, t) ==
    LET previousMode == w.mode
        event == makeSessionEvent(previousMode, w.sessionStartRef, t,
                                  w.sessionDurationRef, w.timeLeftRef)
        newCount == w.focusCounterRef + 1
        nextMode == nextModeAfter(r.settings, previousMode, newCount)
    IN  [w EXCEPT
            !.sessionEvent = event,
            !.evNew = TRUE,
            !.emitted = Append(@, event),
            !.focusCounterRef = IF previousMode = "focus" THEN newCount ELSE @,
            !.completedFocusSessions =
                IF previousMode = "focus" THEN newCount ELSE @,
            !.timeLeft = getDurationForMode(r.settings, nextMode),
            !.sessionStartRef = t,
            !.sessionDurationRef = getDurationForMode(r.settings, nextMode),
            !.mode = nextMode]

----------------------------------------------------------------------------
(* Countdown timer engine: the effects                                     *)

\* getDurationForMode taken for the same function after every render
durationsNeverChanged(old, r) == FALSE

\* getDurationForMode is a new function (its useCallback dependencies changed)
durationsChanged(old, r) ==
    \/ old.settings.focusMinutes # r.settings.focusMinutes
    \/ old.settings.breakMinutes # r.settings.breakMinutes
    \/ old.settings.longBreakMinutes # r.settings.longBreakMinutes

\* transitionMode is a new function
transitionChanged(old, r) ==
    \/ durationsChanged(old, r)
    \/ old.settings.enableLongBreak # r.settings.enableLongBreak
    \/ old.settings.longBreakInterval # r.settings.longBreakInterval

\* useEffect [getDurationForMode, mode, isRunning]
effectSessionRefs(old, r, w, t) ==
    IF durationsChanged(old, r) \/ old.mode # r.mode \/ old.isRunning # r.isRunning
    THEN [w EXCEPT
            !.sessionDurationRef = getDurationForMode(r.settings, r.mode),
            !.sessionStartRef = IF ~r.isRunning THEN t ELSE @]
    ELSE w

\* useEffect [timeLeft]
effectTimeLeftRef(old, r, w) ==
    IF old.timeLeft # r.timeLeft THEN [w EXCEPT !.timeLeftRef = r.timeLeft] ELSE w

\* useEffect [isRunning, timeLeft, transitionMode]
effectExpiry(old, r, w, t) ==
    IF /\ \/ old.isRunning # r.isRunning
          \/ old.timeLeft # r.timeLeft
          \/ transitionChanged(old, r)
       /\ r.isRunning
       /\ r.timeLeft <= 0
    THEN transitionMode(r, w, t)
    ELSE w

\* effectRecomputeTimeLeft taking the focus duration whatever the mode
effectRecomputeTimeLeftOfFocus(old, r, w) ==
    IF /\ durationsChanged(old, r) \/ old.mode # r.mode \/ old.isRunning # r.isRunning
       /\ ~r.isRunning
    THEN [w EXCEPT !.timeLeft = getDurationForMode(r.settings, "focus")]
    ELSE w

\* useEffect [settings.*Minutes, mode, isRunning, getDurationForMode]
effectRecomputeTimeLeft(old, r, w) ==
    IF /\ durationsChanged(old, r) \/ old.mode # r.mode \/ old.isRunning # r.isRunning
       /\ ~r.isRunning
    THEN [w EXCEPT !.timeLeft = getDurationForMode(r.settings, r.mode)]
    ELSE w

\* effectLongBreakOff leaving timeLeft as it is
effectLongBreakOffKeepingTime(old, r, w) ==
    IF /\ \/ old.mode # r.mode
          \/ old.settings.enableLongBreak # r.settings.enableLongBreak
          \/ durationsChanged(old, r)
       /\ r.mode = "long-break"
       /\ ~r.settings.enableLongBreak
    THEN [w EXCEPT !.mode = "break"]
    ELSE w

\* useEffect [mode, settings.enableLongBreak, getDurationForMode]
effectLongBreakOff(old, r, w) ==
    IF /\ \/ old.mode # r.mode
          \/ old.settings.enableLongBreak # r.settings.enableLongBreak
          \/ durationsChanged(old, r)
       /\ r.mode = "long-break"
       /\ ~r.settings.enableLongBreak
    THEN [w EXCEPT !.mode = "break",
                   !.timeLeft = getDurationForMode(r.settings, "break")]
    ELSE w

\* effectLogSession running after every render
effectLogSessionEveryRender(r, w) ==
    IF r.sessionEvent # NullEvent
    THEN [w EXCEPT !.logged = Append(@, r.sessionEvent)]
    ELSE w

\* useScheduler: useEffect [logSession, timer.sessionEvent]
effectLogSession(r, w) ==
    IF r.evNew /\ r.sessionEvent # NullEvent
    THEN [w EXCEPT !.logged = Append(@, r.sessionEvent)]
    ELSE w

\* what a render shows: the useState values (and whether sessionEvent is a new object)
rendered(w) ==
    <<w.settings, w.mode, w.isRunning, w.timeLeft, w.completedFocusSessions,
      w.sessionEvent, w.evNew>>

\* The effects of render r, in the order of their declaration, old being the
\* render before it.
runEffects(old, r, t) ==
    LET w0 == [r EXCEPT !.evNew = FALSE]
        w1 == effectSessionRefs(old, r, w0, t)
        w2 == effectTimeLeftRef(old, r, w1)
        w3 == effectExpiry(old, r, w2, t)
        w4 == effectRecomputeTimeLeft(old, r, w3)
        w5 == effectLongBreakOff(old, r, w4)
    IN  effectLogSession(r, w5)

\* The effects of render r, then the render of what they set and its effects,
\* until a render sets nothing.
RECURSIVE flushEffects(_, _, _)
flushEffects(old, r, t) ==
    CHOOSE settled \in
        {IF rendered(w) = rendered([r EXCEPT !.evNew = FALSE])
         THEN w
         ELSE flushEffects(r, w, t) : w \in {runEffects(old, r, t)}} : TRUE

----------------------------------------------------------------------------
(* Day-keyed task scheduler: days and keys                                 *)

MsPerDay == 86400000

\* A Date is its epoch milliseconds.  A day key "Weekday - DD.MM.YYYY" is the
\* number of the local calendar day it names; a key without a DD.MM.YYYY
\* suffix is a negative number.  An ISO date is the number of the UTC day.
toDayKey(date) == (date + tzOffset) \div MsPerDay

toISODate(date) == date \div MsPerDay

\* new Date(`${iso}T00:00:00`): local midnight of the day the key names
parseDateFromDayKey(key) == IF key < 0 THEN Null ELSE key * MsPerDay - tzOffset

\* a ?? b
OrElse(a, b) == IF a = Null THEN b ELSE a

\* !x of a number | null or a string | null (ids are numbers here)
Falsy(x) == x = Null \/ x = 0

createEmptyDay(date, t) ==
    [key |-> toDayKey(date), dateISO |-> toISODate(date), createdAt |-> t,
     activeTaskId |-> Null, tasks |-> <<>>]

\* putDay stopping the stopwatches of the other days
putDayStoppingOthers(sched, key, day) ==
    [k \in DOMAIN sched \cup {key} |->
        IF k = key
        THEN day
        ELSE [sched[k] EXCEPT
                !.tasks = [i \in 1..Len(@) |-> [@[i] EXCEPT !.timerStartedAt = Null]]]]

\* { ...schedule, [key]: day }
putDay(sched, key, day) ==
    [k \in DOMAIN sched \cup {key} |-> IF k = key THEN day ELSE sched[k]]

ensureDayExists(sched, date, t) ==
    IF toDayKey(date) \in DOMAIN sched
    THEN sched
    ELSE putDay(sched, toDayKey(date), createEmptyDay(date, t))

----------------------------------------------------------------------------
(* Day-keyed task scheduler: the stopwatch of a task                       *)

\* Math.floor of a quotient of integers, also of a negative one
FloorDiv(a, b) == IF a >= 0 THEN a \div b ELSE -((-a + b - 1) \div b)

\* computeElapsedSeconds without the division by 1000
computeElapsedMilliseconds(timerStartedAt, t) == Max(0, t - timerStartedAt)

computeElapsedSeconds(timerStartedAt, t) ==
    Max(0, FloorDiv(t - timerStartedAt, 1000))

stopTaskTimer(task, t) ==
    IF Falsy(task.timerStartedAt)
    THEN task
    ELSE [task EXCEPT
            !.trackedSeconds = @ + computeElapsedSeconds(task.timerStartedAt, t),
            !.timerStartedAt = Null,
            !.updatedAt = t]

startTaskTimer(task, t) ==
    IF ~Falsy(task.timerStartedAt)
    THEN [task EXCEPT !.updatedAt = t]
    ELSE [task EXCEPT !.timerStartedAt = t, !.updatedAt = t]

----------------------------------------------------------------------------
(* Day-keyed task scheduler: the updaters of setSchedule                   *)

\* A title is the sequence of its characters.
RECURSIVE trimStart(_)
trimStart(str) ==
    IF str # <<>> /\ Head(str) = " " THEN trimStart(Tail(str)) ELSE str

RECURSIVE trimEnd(_)
trimEnd(str) ==
    IF str # <<>> /\ str[Len(str)] = " "
    THEN trimEnd(SubSeq(str, 1, Len(str) - 1))
    ELSE str

trim(str) == trimEnd(trimStart(str))

MapSeq(seq, F(_)) == [i \in 1..Len(seq) |-> F(seq[i])]

\* tasks.filter(keep)
FilterSeq(seq, Keep(_)) == SelectSeq(seq, Keep)

\* the day mutateDay hands to mutate
existingDay(sched, dayKey, t) ==
    IF dayKey \in DOMAIN sched
    THEN sched[dayKey]
    ELSE LET parsedDate == OrElse(parseDateFromDayKey(dayKey), t)
         IN  [createEmptyDay(parsedDate, t) EXCEPT
                !.key = dayKey, !.dateISO = toISODate(parsedDate)]

mutateDay(sched, dayKey, mutate(_), t) ==
    putDay(sched, dayKey, mutate(existingDay(sched, dayKey, t)))

\* selectDay returning the schedule as it was
selectDayWithoutCreating(sched, dayKey, t) == sched

\* setSelectedDay: the updater of setSchedule
selectDay(sched, dayKey, t) ==
    IF dayKey \in DOMAIN sched
    THEN sched
    ELSE LET parsedDate == OrElse(parseDateFromDayKey(dayKey), t)
         IN  putDay(sched, dayKey,
                    [key |-> dayKey, dateISO |-> toISODate(parsedDate),
                     createdAt |-> t, activeTaskId |-> Null, tasks |-> <<>>])

\* newTask keeping the title as typed
newTaskUntrimmed(id, title, t, shouldActivate) ==
    [id |-> id, title |-> title, createdAt |-> t, updatedAt |-> t,
     totalFocusSeconds |-> 0, totalBreakSeconds |-> 0, sessions |-> <<>>,
     trackedSeconds |-> 0,
     timerStartedAt |-> IF shouldActivate THEN t ELSE Null]

newTask(id, title, t, shouldActivate) ==
    [id |-> id, title |-> trim(title), createdAt |-> t, updatedAt |-> t,
     totalFocusSeconds |-> 0, totalBreakSeconds |-> 0, sessions |-> <<>>,
     trackedSeconds |-> 0,
     timerStartedAt |-> IF shouldActivate THEN t ELSE Null]

\* addTask starting the stopwatch of every new task
addTaskToDayAlwaysStarting(day, title, id, t) ==
    [day EXCEPT
        !.tasks = Append(@, newTask(id, title, t, TRUE)),
        !.activeTaskId = OrElse(@, id)]

\* addTask: the mutation of the day
addTaskToDay(day, title, id, t) ==
    LET shouldActivate == day.activeTaskId = Null
    IN  [day EXCEPT
            !.tasks = Append(@, newTask(id, title, t, shouldActivate)),
            !.activeTaskId = OrElse(@, id)]

\* updateTaskTitle: the mutation of the day
retitleInDay(day, taskId, title, t) ==
    [day EXCEPT
        !.tasks = MapSeq(@, LAMBDA task :
            IF task.id = taskId
            THEN [task EXCEPT
                    !.title = IF trim(title) # <<>> THEN trim(title) ELSE @,
                    !.updatedAt = t]
            ELSE task)]

\* deleteTask handing the stopwatch to the last task left
deleteFromDayToLast(day, taskId, t) ==
    LET remaining == FilterSeq(day.tasks, LAMBDA task : task.id # taskId)
        wasActive == day.activeTaskId = taskId
        nextActiveId ==
            IF wasActive
            THEN IF remaining # <<>> THEN remaining[Len(remaining)].id ELSE Null
            ELSE day.activeTaskId
        tasks == MapSeq(remaining, LAMBDA task :
            IF ~Falsy(nextActiveId) /\ task.id = nextActiveId
            THEN startTaskTimer(task, t)
            ELSE IF /\ ~Falsy(task.timerStartedAt)
                    /\ (Falsy(nextActiveId) \/ task.id # nextActiveId)
                 THEN stopTaskTimer(task, t)
                 ELSE task)
    IN  [day EXCEPT !.tasks = tasks, !.activeTaskId = nextActiveId]

\* deleteTask: the mutation of the day
deleteFromDay(day, taskId, t) ==
    LET remaining == FilterSeq(day.tasks, LAMBDA task : task.id # taskId)
        wasActive == day.activeTaskId = taskId
        nextActiveId ==
            IF wasActive
            THEN IF remaining # <<>> THEN remaining[1].id ELSE Null
            ELSE day.activeTaskId
        tasks == MapSeq(remaining, LAMBDA task :
            IF ~Falsy(nextActiveId) /\ task.id = nextActiveId
            THEN startTaskTimer(task, t)
            ELSE IF /\ ~Falsy(task.timerStartedAt)
                    /\ (Falsy(nextActiveId) \/ task.id # nextActiveId)
                 THEN stopTaskTimer(task, t)
                 ELSE task)
    IN  [day EXCEPT !.tasks = tasks, !.activeTaskId = nextActiveId]

\* setActiveTask taking taskId without looking for it among the tasks
activateInDayUnchecked(day, taskId, t) ==
    LET tasks == MapSeq(day.tasks, LAMBDA task :
            IF ~Falsy(taskId) /\ task.id = taskId
            THEN startTaskTimer(task, t)
            ELSE IF ~Falsy(task.timerStartedAt)
                 THEN stopTaskTimer(task, t)
                 ELSE task)
    IN  [day EXCEPT !.activeTaskId = taskId, !.tasks = tasks]

\* setActiveTask: the mutation of the day
activateInDay(day, taskId, t) ==
    LET tasks == MapSeq(day.tasks, LAMBDA task :
            IF ~Falsy(taskId) /\ task.id = taskId
            THEN startTaskTimer(task, t)
            ELSE IF ~Falsy(task.timerStartedAt)
                 THEN stopTaskTimer(task, t)
                 ELSE task)
        nextActiveId ==
            IF ~Falsy(taskId) /\ \E i \in 1..Len(tasks) : tasks[i].id = taskId
            THEN taskId
            ELSE Null
    IN  [day EXCEPT !.activeTaskId = nextActiveId, !.tasks = tasks]

\* tasks.findIndex(task => task.id === id), 0 for -1
findIndex(tasks, id) ==
    IF \E i \in 1..Len(tasks) : tasks[i].id = id
    THEN CHOOSE i \in 1..Len(tasks) :
            /\ tasks[i].id = id
            /\ \A j \in 1..(i - 1) : tasks[j].id # id
    ELSE 0

\* a session record that loses the seconds of the event
sessionRecordWithoutSeconds(id, event) ==
    [id |-> id, mode |-> event.mode, startedAt |-> event.startedAt,
     endedAt |-> event.endedAt, scheduledDuration |-> event.scheduledDuration,
     elapsedSeconds |-> 0, interrupted |-> event.interrupted]

\* { id: generateId(), ...event }
sessionRecord(id, event) ==
    [id |-> id, mode |-> event.mode, startedAt |-> event.startedAt,
     endedAt |-> event.endedAt, scheduledDuration |-> event.scheduledDuration,
     elapsedSeconds |-> event.elapsedSeconds, interrupted |-> event.interrupted]

\* logSession finds a task to add the event to
logsToTask(sched, event) ==
    LET dayKey == toDayKey(event.endedAt)
    IN  /\ dayKey \in DOMAIN sched
        /\ ~Falsy(sched[dayKey].activeTaskId)
        /\ findIndex(sched[dayKey].tasks, sched[dayKey].activeTaskId) # 0

\* logSession putting the new record before the others
logSessionPrepending(sched, event, id, t) ==
    LET dayKey == toDayKey(event.endedAt)
        day == IF dayKey \in DOMAIN sched
               THEN sched[dayKey]
               ELSE createEmptyDay(event.endedAt, t)
        taskIndex == findIndex(day.tasks, day.activeTaskId)
        isFocus == event.mode = "focus"
    IN  IF Falsy(day.activeTaskId) \/ taskIndex = 0
        THEN putDay(sched, dayKey, day)
        ELSE putDay(sched, dayKey,
                [day EXCEPT !.tasks[taskIndex] =
                    [@ EXCEPT
                        !.updatedAt = event.endedAt,
                        !.totalFocusSeconds =
                            IF isFocus THEN @ + event.elapsedSeconds ELSE @,
                        !.totalBreakSeconds =
                            IF ~isFocus THEN @ + event.elapsedSeconds ELSE @,
                        !.sessions = <<sessionRecord(id, event)>> \o @]])

\* logSession: the updater of setSchedule; id is the id generateId returns
logSession(sched, event, id, t) ==
    LET dayKey == toDayKey(event.endedAt)
        day == IF dayKey \in DOMAIN sched
               THEN sched[dayKey]
               ELSE createEmptyDay(event.endedAt, t)
        taskIndex == findIndex(day.tasks, day.activeTaskId)
        isFocus == event.mode = "focus"
    IN  IF Falsy(day.activeTaskId) \/ taskIndex = 0
        THEN putDay(sched, dayKey, day)
        ELSE putDay(sched, dayKey,
                [day EXCEPT !.tasks[taskIndex] =
                    [@ EXCEPT
                        !.updatedAt = event.endedAt,
                        !.totalFocusSeconds =
                            IF isFocus THEN @ + event.elapsedSeconds ELSE @,
                        !.totalBreakSeconds =
                            IF ~isFocus THEN @ + event.elapsedSeconds ELSE @,
                        !.sessions = Append(@, sessionRecord(id, event))]])

\* the effect of useScheduler hands the events of one step to logSession;
\* st is <<schedule, next id>>
RECURSIVE logSessions(_, _, _)
logSessions(st, events, t) ==
    IF events = <<>>
    THEN st
    ELSE LET uses == logsToTask(st[1], Head(events))
         IN  logSessions(<<logSession(st[1], Head(events), st[2], t),
                           IF uses THEN st[2] + 1 ELSE st[2]>>,
                         Tail(events), t)

----------------------------------------------------------------------------
(* localStorage: JSON texts                                                *)

\* A JSON text is the tree of the values it spells: a kind and a value.
JNull == [json |-> "null", value |-> 0]
JNumber(n) == [json |-> "number", value |-> n]
JString(str) == [json |-> "string", value |-> str]
JBoolean(b) == [json |-> "boolean", value |-> b]
JArray(items) == [json |-> "array", value |-> items]
\* members is the sequence of the pairs <<name, value>>
JObject(members) == [json |-> "object", value |-> members]
\* a text that is no JSON
InvalidText == [json |-> "invalid", value |-> 0]
\* getItem(key) = null: nothing is stored under the key
NoItem == [json |-> "none", value |-> 0]

\* JSON.stringify of a number: NaN and the infinities are written as null
stringifyNumber(n) == IF isFinite(n) THEN JNumber(n) ELSE JNull

\* JSON.stringify of a number | null
stringifyNullable(x) == IF x = Null THEN JNull ELSE stringifyNumber(x)

\* JSON.stringify of a string | null
stringifyId(id) == IF id = Null THEN JNull ELSE JString(id)

stringifySettings(st) ==
    JObject(<< <<"focusMinutes", stringifyNumber(st.focusMinutes)>>,
               <<"breakMinutes", stringifyNumber(st.breakMinutes)>>,
               <<"longBreakMinutes", stringifyNumber(st.longBreakMinutes)>>,
               <<"enableLongBreak", JBoolean(st.enableLongBreak)>>,
               <<"longBreakInterval", stringifyNumber(st.longBreakInterval)>>,
               <<"soundEnabled", JBoolean(st.soundEnabled)>>,
               <<"notificationsEnabled", JBoolean(st.notificationsEnabled)>> >>)

stringifySession(session) ==
    JObject(<< <<"id", JString(session.id)>>,
               <<"mode", JString(session.mode)>>,
               <<"startedAt", stringifyNumber(session.startedAt)>>,
               <<"endedAt", stringifyNumber(session.endedAt)>>,
               <<"scheduledDuration", stringifyNumber(session.scheduledDuration)>>,
               <<"elapsedSeconds", stringifyNumber(session.elapsedSeconds)>>,
               <<"interrupted", JBoolean(session.interrupted)>> >>)

\* the fields of a task, in the order addTask writes them
TaskFields ==
    <<"id", "title", "createdAt", "updatedAt", "totalFocusSeconds",
      "totalBreakSeconds", "sessions", "trackedSeconds", "timerStartedAt">>

\* the text of the value of a field of a task
stringifyTaskField(name, value) ==
    CASE name \in {"id", "title"} -> JString(value)
      [] name = "sessions" ->
            JArray([i \in 1..Len(value) |-> stringifySession(value[i])])
      [] name = "timerStartedAt" -> stringifyNullable(value)
      [] OTHER -> stringifyNumber(value)

\* JSON.stringify leaves out a field that is undefined
stringifyTask(task) ==
    LET names == SelectSeq(TaskFields, LAMBDA name : name \in DOMAIN task)
    IN  JObject([i \in 1..Len(names) |->
                    <<names[i], stringifyTaskField(names[i], task[names[i]])>>])

stringifyDay(day) ==
    JObject(<< <<"key", JString(day.key)>>,
               <<"dateISO", JString(day.dateISO)>>,
               <<"createdAt", stringifyNumber(day.createdAt)>>,
               <<"activeTaskId", stringifyId(day.activeTaskId)>>,
               <<"tasks",
                 JArray([i \in 1..Len(day.tasks) |-> stringifyTask(day.tasks[i])])>> >>)

\* Object.keys(sched), in an order
RECURSIVE keysOf(_)
keysOf(keys) ==
    IF keys = {}
    THEN <<>>
    ELSE LET first == CHOOSE k \in keys : \A other \in keys : k <= other
         IN  <<first>> \o keysOf(keys \ {first})

\* JSON.stringify(schedule)
stringifySchedule(sched) ==
    LET keys == keysOf(DOMAIN sched)
    IN  JObject([i \in 1..Len(keys) |-> <<keys[i], stringifyDay(sched[keys[i]])>>])

\* the value of the last member of the name
memberOf(members, name) ==
    LET last == CHOOSE i \in 1..Len(members) :
                    /\ members[i][1] = name
                    /\ \A j \in (i + 1)..Len(members) : members[j][1] # name
    IN  members[last][2]

\* JSON.parse of a text that is JSON
RECURSIVE parseJSON(_)
parseJSON(text) ==
    CASE text.json = "null" -> Null
      [] text.json \in {"number", "string", "boolean"} -> text.value
      [] text.json = "array" ->
            [i \in 1..Len(text.value) |-> parseJSON(text.value[i])]
      [] text.json = "object" ->
            [name \in {text.value[i][1] : i \in 1..Len(text.value)} |->
                parseJSON(memberOf(text.value, name))]

\* obj.name ?? fallback of a field that is there or missing
Field(obj, name, fallback) == IF name \in DOMAIN obj THEN obj[name] ELSE fallback

----------------------------------------------------------------------------
(* localStorage: loading                                                   *)

\* loadSettings: nothing is set when there is no item, when JSON.parse throws
\* and when sanitizeSettings throws, reading a field of null
loadSettings(w, item) ==
    IF item.json \in {"none", "invalid", "null"}
    THEN w
    ELSE LET parsed == IF item.json = "object" THEN parseJSON(item) ELSE <<>>
             sanitized ==
                 sanitizeSettings([f \in DOMAIN DEFAULT_SETTINGS |->
                                      Field(parsed, f, Undefined)])
         IN  [w EXCEPT
                !.settings = sanitized,
                !.timeLeft =
                    Whole(clampMinutes(sanitized.focusMinutes)) * SecondsPerMinute]

safeParseSchedule(value) ==
    IF value.json \in {"object", "array"} THEN parseJSON(value) ELSE <<>>

\* sessions.reduce((acc, session) => counted ? acc + session.elapsedSeconds : acc, 0),
\* a session being counted when it is focus (isFocus) or is not (~isFocus)
RECURSIVE reduceElapsed(_, _)
reduceElapsed(sessions, isFocus) ==
    IF sessions = <<>>
    THEN 0
    ELSE LET session == sessions[Len(sessions)]
             acc == reduceElapsed(SubSeq(sessions, 1, Len(sessions) - 1), isFocus)
         IN  IF (session.mode = "focus") = isFocus
             THEN acc + session.elapsedSeconds
             ELSE acc

\* augmentTask leaving missing totals at 0
augmentTaskWithoutFolding(task, t) ==
    [f \in DOMAIN task \cup {"sessions", "totalFocusSeconds", "totalBreakSeconds",
                             "trackedSeconds", "timerStartedAt", "updatedAt"} |->
        CASE f = "sessions" -> Field(task, "sessions", <<>>)
          [] f = "totalFocusSeconds" -> Field(task, "totalFocusSeconds", 0)
          [] f = "totalBreakSeconds" -> Field(task, "totalBreakSeconds", 0)
          [] f = "trackedSeconds" -> Field(task, "trackedSeconds", 0)
          [] f = "timerStartedAt" ->
                LET startedAt == Field(task, "timerStartedAt", Undefined)
                IN  IF isFinite(startedAt) /\ startedAt # Null
                    THEN startedAt
                    ELSE Null
          [] f = "updatedAt" -> Field(task, "updatedAt", Field(task, "createdAt", t))
          [] OTHER -> task[f]]

\* augmentDay: the task a stored task becomes
augmentTask(task, t) ==
    LET sessions == Field(task, "sessions", <<>>)
        startedAt == Field(task, "timerStartedAt", Undefined)
    IN  [f \in DOMAIN task \cup {"sessions", "totalFocusSeconds",
                                 "totalBreakSeconds", "trackedSeconds",
                                 "timerStartedAt", "updatedAt"} |->
            CASE f = "sessions" -> sessions
              [] f = "totalFocusSeconds" ->
                    Field(task, "totalFocusSeconds", reduceElapsed(sessions, TRUE))
              [] f = "totalBreakSeconds" ->
                    Field(task, "totalBreakSeconds", reduceElapsed(sessions, FALSE))
              [] f = "trackedSeconds" -> Field(task, "trackedSeconds", 0)
              [] f = "timerStartedAt" ->
                    IF isFinite(startedAt) /\ startedAt # Null
                    THEN startedAt
                    ELSE Null
              [] f = "updatedAt" ->
                    Field(task, "updatedAt", Field(task, "createdAt", t))
              [] OTHER -> task[f]]

\* augmentDay forgetting the active task
augmentDayWithoutActiveTask(day, t) ==
    [activeTaskId |-> Null,
     createdAt |-> Field(day, "createdAt", t),
     dateISO |-> day.dateISO,
     key |-> day.key,
     tasks |-> LET tasks == Field(day, "tasks", <<>>)
               IN  [i \in 1..Len(tasks) |-> augmentTask(tasks[i], t)]]

augmentDay(day, t) ==
    [activeTaskId |-> Field(day, "activeTaskId", Null),
     createdAt |-> Field(day, "createdAt", t),
     dateISO |-> day.dateISO,
     key |-> day.key,
     tasks |-> LET tasks == Field(day, "tasks", <<>>)
               IN  [i \in 1..Len(tasks) |-> augmentTask(tasks[i], t)]]

sanitizeSchedule(value, t) == [key \in DOMAIN value |-> augmentDay(value[key], t)]

\* the hydration effect of useScheduler: what it hands to setSchedule and to
\* setSelectedDayKey
hydrateSchedule(scheduleItem, selectedItem, selected, t) ==
    LET sanitized == sanitizeSchedule(safeParseSchedule(scheduleItem), t)
    IN  [schedule |-> ensureDayExists(sanitized, t, t),
         selectedDayKey |->
             IF selectedItem.json = "string" /\ selectedItem.value \in DOMAIN sanitized
             THEN selectedItem.value
             ELSE selected]

----------------------------------------------------------------------------
(* localStorage: the persist effects                                       *)

\* the keys, in the order of the effects that write them
StorageKeys == <<"settings", "schedule", "selectedDay">>

\* the text the persist effect of a key writes
textOf(key, st, sched, selected) ==
    CASE key = "settings" -> stringifySettings(st)
      [] key = "schedule" -> stringifySchedule(sched)
      [] key = "selectedDay" -> JString(selected)

\* what localStorage holds once the three effects have written
persisted(st, sched, selected) ==
    [key \in {"settings", "schedule", "selectedDay"} |->
        textOf(key, st, sched, selected)]

\* the keys whose value the step changes
changedKeys(st, sched, selected) ==
    SelectSeq(StorageKeys,
              LAMBDA key :
                  CASE key = "settings" -> st # settings
                    [] key = "schedule" -> sched # schedule
                    [] key = "selectedDay" -> selected # selectedDayKey)

\* writingKeys without the early returns
writingKeysUnguarded(keys, isHydrated, isScheduleHydrated) == keys

\* the effects of keys that do write: each returns early when the flag of its
\* render is false
writingKeys(keys, isHydrated, isScheduleHydrated) ==
    SelectSeq(keys,
              LAMBDA key :
                  IF key = "settings" THEN isHydrated ELSE isScheduleHydrated)

\* the index of the first key whose setItem is not inside try/catch, or 0
firstUncaught(keys) ==
    IF \E i \in 1..Len(keys) : keys[i] # "settings"
    THEN CHOOSE i \in 1..Len(keys) :
             /\ keys[i] # "settings"
             /\ \A j \in 1..(i - 1) : keys[j] = "settings"
    ELSE 0

\* The persist effects of keys run with the values of their render.  setItem
\* throwing, the effect of the settings catches it; the effects of the
\* schedule and of the selected day do not, and the error of an effect
\* unmounts the component tree.
WriteItems(keys, st, sched, selected) ==
    LET thrown == storageFails /\ firstUncaught(keys) # 0
        last == IF thrown THEN firstUncaught(keys) ELSE Len(keys)
    IN  /\ written' = [i \in 1..last |-> [key |-> keys[i], ok |-> ~storageFails]]
        /\ storage' =
              IF storageFails
              THEN storage
              ELSE [key \in DOMAIN storage |->
                       IF \E i \in 1..Len(keys) : keys[i] = key
                       THEN textOf(key, st, sched, selected)
                       ELSE storage[key]]
        /\ crashed' = thrown

\* const tasks = selectedDay?.tasks ?? []
tasksOfSelected(sched, selected) ==
    IF selected \in DOMAIN sched THEN sched[selected].tasks ELSE <<>>

hasRunningTask(sched, selected) ==
    \E i \in 1..Len(tasksOfSelected(sched, selected)) :
        tasksOfSelected(sched, selected)[i].timerStartedAt # Null

\* display effect whose cleanup leaves its interval running
displayEffectLeaking(was, is, count) ==
    IF was = is THEN count ELSE IF is THEN count + 1 ELSE count

\* TaskTracker, the effect of [hasRunningTask]: the cleanup of the last run
\* clears the interval that run made, the new run makes one for a running task
displayEffect(was, is, count) ==
    IF was = is
    THEN count
    ELSE (IF was THEN count - 1 ELSE count) + (IF is THEN 1 ELSE 0)

\* TaskTracker after a render with the given schedule and selected day
DisplayEffect(sched, selected) ==
    LET was == hasRunningTask(schedule, selectedDayKey)
        is == hasRunningTask(sched, selected)
    IN  /\ displayIntervals' = displayEffect(was, is, displayIntervals)
        /\ currentTime' = IF is /\ ~was THEN now ELSE currentTime

\* the effects after a step that leaves the settings, the schedule and the
\* selected day as given: the persist effects and those of TaskTracker
EffectsOf(st, sched, selected) ==
    /\ mounted
    /\ ~crashed
    /\ WriteItems(writingKeys(changedKeys(st, sched, selected),
                              hydrated, scheduleHydrated),
                  st, sched, selected)
    /\ DisplayEffect(sched, selected)
    /\ UNCHANGED <<storageFails, hydrated, scheduleHydrated, mounted, keyVars>>

\* the same after a step that is not one of the edit form
PersistOf(st, sched, selected) ==
    /\ EffectsOf(st, sched, selected)
    /\ UNCHANGED <<editing, requests>>

\* the persist effects after a step of the scheduler
Persist ==
    /\ PersistOf(settings, schedule', selectedDayKey')
    /\ UNCHANGED queue

----------------------------------------------------------------------------
(* Countdown timer engine: the operations                                  *)

\* the engine now, at the start of a step
Engine ==
    [settings |-> settings, mode |-> mode, isRunning |-> isRunning,
     timeLeft |-> timeLeft, completedFocusSessions |-> completedFocusSessions,
     sessionEvent |-> sessionEvent, focusCounterRef |-> focusCounterRef,
     sessionStartRef |-> sessionStartRef,
     sessionDurationRef |-> sessionDurationRef, timeLeftRef |-> timeLeftRef,
     evNew |-> FALSE, emitted |-> <<>>, logged |-> <<>>]

\* start: setIsRunning(true)
start(w) == [w EXCEPT !.isRunning = TRUE]

\* pause: setIsRunning(false)
pause(w) == [w EXCEPT !.isRunning = FALSE]

\* reset without setSessionEvent(null)
resetKeepingEvent(w, t) ==
    [pause(w) EXCEPT
        !.mode = "focus",
        !.focusCounterRef = 0,
        !.completedFocusSessions = 0,
        !.timeLeft = getDurationForMode(w.settings, "focus"),
        !.sessionStartRef = t,
        !.sessionDurationRef = getDurationForMode(w.settings, "focus")]

\* reset
reset(w, t) ==
    [pause(w) EXCEPT
        !.mode = "focus",
        !.focusCounterRef = 0,
        !.completedFocusSessions = 0,
        !.timeLeft = getDurationForMode(w.settings, "focus"),
        !.sessionStartRef = t,
        !.sessionDurationRef = getDurationForMode(w.settings, "focus"),
        !.sessionEvent = NullEvent]

\* skip
\* skip that also stops the countdown
skipPausing(w, t) == [transitionMode(w, w, t) EXCEPT !.isRunning = FALSE]

skip(w, t) == transitionMode(w, w, t)

\* an interval callback that stops one second short of zero
tickStoppingAtOne(w) == [w EXCEPT !.timeLeft = IF @ > 1 THEN @ - 1 ELSE @]

\* the interval callback: setTimeLeft((previous) => (previous > 0 ? previous - 1 : 0))
tick(w) == [w EXCEPT !.timeLeft = IF @ > 0 THEN @ - 1 ELSE 0]

\* updateSettings(partial)
updateSettings(w, partial) ==
    [w EXCEPT !.settings = mergeSettings(@, partial)]

\* the engine after a handler changed it from Engine to w, effects included
settle(w) == flushEffects(Engine, w, now)

\* the step leaves the state and the refs of useTimer as in w
\* intervalRef and the live countdown intervals
Intervals == [ref |-> intervalRef, live |-> intervals]

\* clearTimer that forgets the handle but leaves its interval running
clearTimerLeaking(iv) == [iv EXCEPT !.ref = Null]

clearTimer(iv) ==
    IF iv.ref # Null THEN [ref |-> Null, live |-> iv.live - 1] ELSE iv

\* the effect of [isRunning, clearTimer]: cleanup of the last run, then
\* clearTimer when paused, setInterval when running
tickEffect(was, is, iv) ==
    IF was = is
    THEN iv
    ELSE IF is
         THEN [ref |-> 1, live |-> clearTimer(iv).live + 1]
         ELSE clearTimer(clearTimer(iv))

SetTimer(w) ==
    /\ settings' = w.settings
    /\ mode' = w.mode
    /\ isRunning' = w.isRunning
    /\ timeLeft' = w.timeLeft
    /\ completedFocusSessions' = w.completedFocusSessions
    /\ sessionEvent' = w.sessionEvent
    /\ focusCounterRef' = w.focusCounterRef
    /\ sessionStartRef' = w.sessionStartRef
    /\ sessionDurationRef' = w.sessionDurationRef
    /\ timeLeftRef' = w.timeLeftRef
    /\ \E iv \in {tickEffect(isRunning, w.isRunning, Intervals)} :
          /\ intervalRef' = iv.ref
          /\ intervals' = iv.live

\* the step leaves the engine as w and the schedule with w's events logged
SetEngine(w) ==
    /\ SetTimer(w)
    /\ emitted' = w.emitted
    /\ logged' = w.logged
    /\ \E st \in {logSessions(<<schedule, nextId>>, w.logged, now)} :
          /\ schedule' = st[1]
          /\ nextId' = st[2]
          /\ PersistOf(w.settings, st[1], selectedDayKey)
    /\ UNCHANGED queue
    /\ UNCHANGED <<selectedDayKey, todayKey, now, tzOffset>>

\* the focus counter stays within the model's bound
RoomForTransition == mode = "focus" => focusCounterRef < MaxFocusCount

\* the history of a step that leaves the engine as w, counted being the
\* seconds the countdown has run in the interval when the step ends it
History(w, counted) ==
    LET transitioned == w.emitted # <<>>
    IN  /\ ranAtEmit' = IF transitioned THEN counted ELSE ranAtEmit
        /\ ran' = IF transitioned \/ w.mode # mode THEN 0 ELSE counted
        /\ focusExits' = IF transitioned /\ mode = "focus"
                         THEN focusExits + 1
                         ELSE focusExits

\* a user operation: the user acts within the first MaxRan seconds that an
\* interval runs, and MaxUserOps times in all
UserOp(name) ==
    /\ ops < MaxUserOps
    /\ ran < MaxRan
    /\ ops' = ops + 1
    /\ lastOp' = name

\* the edit form, closed
NoEdit == [taskId |-> Null, title |-> <<>>, hours |-> 0, minutes |-> 0]

\* the arguments of an operation that takes none: a task id, a title, a day
\* key, of a partial settings object the fields it gives and those of its
\* flags it gives a value that is no boolean, and of a render the operations
\* whose updates it applies
NoArg == [taskId |-> Null, title |-> <<>>, dayKey |-> Null,
          given |-> {}, nonBoolean |-> {}, batch |-> <<>>]

Start ==
    /\ UserOp("start")
    /\ lastArg' = NoArg
    /\ \E w \in {settle(start(Engine))} :
          /\ SetEngine(w)
          /\ History(w, ran)

Pause ==
    /\ UserOp("pause")
    /\ lastArg' = NoArg
    /\ \E w \in {settle(pause(Engine))} :
          /\ SetEngine(w)
          /\ History(w, ran)

Reset ==
    /\ UserOp("reset")
    /\ lastArg' = NoArg
    /\ \E w \in {settle(reset(Engine, now))} : SetEngine(w)
    /\ ran' = 0
    /\ ranAtEmit' = 0
    /\ focusExits' = 0

Skip ==
    /\ UserOp("skip")
    /\ lastArg' = NoArg
    /\ RoomForTransition
    /\ \E w \in {settle(skip(Engine, now))} :
          /\ SetEngine(w)
          /\ History(w, ran)

\* the callback of setInterval exists while isRunning
Tick ==
    /\ intervals > 0
    /\ timeLeft <= 1 => RoomForTransition
    /\ \E w \in {settle(tick(Engine))} :
           /\ SetEngine(w)
           /\ lastOp' = IF w.emitted # <<>> THEN "expiry" ELSE "tick"
           /\ History(w, IF timeLeft > 0 THEN Min(ran + 1, MaxRan) ELSE ran)
    /\ lastArg' = NoArg
    /\ UNCHANGED ops

\* the partial settings a user submits
DurationPartials ==
    {[focusMinutes |-> Num(m)] : m \in {1, 2}} \cup {[breakMinutes |-> Num(2)]}
FlagPartials == {[enableLongBreak |-> b] : b \in BOOLEAN}
\* a flag given a value that is no boolean: a string
NonBooleanPartials == {[enableLongBreak |-> "yes"]}

updateSettingsWith(partial) ==
    /\ lastArg' = [NoArg EXCEPT
                      !.given = DOMAIN partial,
                      !.nonBoolean = {f \in DOMAIN partial \cap FlagFields :
                                         ~isBoolean(partial[f])}]
    /\ \E w \in {settle(updateSettings(Engine, partial))} :
          /\ SetEngine(w)
          /\ History(w, ran)

UpdateSettings ==
    /\ UserOp("updateSettings")
    /\ \/ \E partial \in DurationPartials \cup FlagPartials :
             updateSettingsWith(partial)
       \/ \E partial \in NonBooleanPartials : updateSettingsWith(partial)

----------------------------------------------------------------------------
(* The state after mounting                                                *)

\* the settings found in localStorage
StoredSettings ==
    {[DEFAULT_SETTINGS EXCEPT !.focusMinutes = Num(2), !.breakMinutes = Num(1),
                              !.longBreakMinutes = Num(2),
                              !.longBreakInterval = Num(k)] :
        k \in {2, 3}}

\* one second before midnight (UTC) at the end of day 2
StartOfTime == 3 * MsPerDay - 1000

InitEngine(stored) ==
    /\ settings \in {sanitizeSettings(s) : s \in stored}
    /\ mode = "focus"
    /\ isRunning = FALSE
    /\ timeLeft = getDurationForMode(settings, "focus")
    /\ completedFocusSessions = 0
    /\ sessionEvent = NullEvent
    /\ focusCounterRef = 0
    /\ sessionStartRef = now
    /\ sessionDurationRef = getDurationForMode(settings, "focus")
    /\ timeLeftRef = timeLeft
    /\ intervalRef = Null
    /\ intervals = 0

\* nothing in localStorage: the hydration effect leaves today's day, empty
InitScheduler ==
    /\ nextId = 1
    /\ schedule = ensureDayExists(<<>>, now, now)
    /\ selectedDayKey = toDayKey(now)
    /\ todayKey = toDayKey(now)

\* the effects of mounting have run: the flags are set and localStorage
\* holds what the persist effects wrote
InitMounted ==
    /\ hydrated = TRUE
    /\ scheduleHydrated = TRUE
    /\ mounted = TRUE
    /\ crashed = FALSE
    /\ queue = <<>>
    /\ storageFails = FALSE
    /\ storage = persisted(settings, schedule, selectedDayKey)
    /\ written = <<>>

\* TaskTracker before any effect and any edit
InitTracker ==
    /\ displayIntervals = 0
    /\ currentTime = now
    /\ editing = NoEdit
    /\ requests = <<>>

\* no shortcut is registered
InitNoShortcut ==
    /\ shortcutKeys = <<>>
    /\ enabled = FALSE
    /\ sequenceRef = <<>>
    /\ timeoutRef = Null
    /\ fired = FALSE

InitHistory ==
    /\ lastOp = "init"
    /\ emitted = <<>>
    /\ logged = <<>>
    /\ ran = 0
    /\ ranAtEmit = 0
    /\ focusExits = 0
    /\ ops = 0
    /\ lastArg = NoArg

Init ==
    /\ now = StartOfTime
    /\ tzOffset = 0
    /\ InitEngine(StoredSettings)
    /\ InitScheduler
    /\ InitMounted
    /\ InitHistory
    /\ InitTracker
    /\ InitNoShortcut

Next ==
    \/ Start
    \/ Pause
    \/ Reset
    \/ Skip
    \/ Tick
    \/ UpdateSettings

\* The engine, its events logged by the scheduler
Spec == Init /\ [][Next]_vars

----------------------------------------------------------------------------
(* Day-keyed task scheduler: the operations                                *)

\* clock readings after StartOfTime, a second apart
MaxClockSteps == 1
\* user operations on the scheduler in one run
MaxSchedOps == 4

ClockStep == 1000

TimeZones == {0, 3600000}

\* the titles a user types for a new task, and for a task there is
TitleInputs == {<<" ">>, <<"a", " ">>}
RetitleInputs == {<<" ">>, <<" ", "b">>}

\* the task ids a user gives: those of the tasks of the selected day, which
\* the operations look at, and one that was never handed out
KnownIds ==
    LET day == existingDay(schedule, selectedDayKey, now)
    IN  {day.tasks[i].id : i \in 1..Len(day.tasks)} \cup {nextId}

\* the day keys a user selects: the days of the schedule, today, the day
\* before the first day, and a key that names no date
DayKeyInputs ==
    DOMAIN schedule \cup {toDayKey(now), toDayKey(StartOfTime) - 1, -2}

SchedulerStep(name, arg) ==
    /\ ops < MaxSchedOps
    /\ lastArg' = arg
    /\ ops' = ops + 1
    /\ lastOp' = name
    /\ emitted' = <<>>
    /\ logged' = <<>>
    /\ UNCHANGED <<timerVars, ran, ranAtEmit, focusExits, now, tzOffset>>

\* Date.now() moves on, while operations are still to come
AdvanceClock ==
    /\ ops < MaxSchedOps
    /\ now + ClockStep <= StartOfTime + MaxClockSteps * ClockStep
    /\ now' = now + ClockStep
    /\ UNCHANGED <<timerVars, schedVars, nextId, tzOffset, histVars, storeVars,
                   queue, uiVars>>

\* the callback of setInterval(updateTodayKey, 60000), and the effect on todayKey
UpdateTodayKey ==
    /\ todayKey' = toDayKey(now)
    /\ schedule' = IF todayKey' # todayKey
                   THEN ensureDayExists(schedule, now, now)
                   ELSE schedule
    /\ UNCHANGED <<timerVars, selectedDayKey, envVars, histVars>>
    /\ IF todayKey' # todayKey
       THEN Persist
       ELSE UNCHANGED <<storeVars, queue, uiVars>>

SetSelectedDay ==
    /\ \E dayKey \in DayKeyInputs :
          /\ SchedulerStep("setSelectedDay", [NoArg EXCEPT !.dayKey = dayKey])
          /\ schedule' = selectDay(schedule, dayKey, now)
          /\ selectedDayKey' = dayKey
    /\ UNCHANGED <<todayKey, nextId>>
    /\ Persist

AddTask ==
    /\ \E title \in TitleInputs :
          /\ SchedulerStep("addTask", [NoArg EXCEPT !.title = title])
          /\ IF trim(title) = <<>>
             THEN UNCHANGED <<schedule, nextId>>
             ELSE /\ schedule' = mutateDay(schedule, selectedDayKey,
                                     LAMBDA day : addTaskToDay(day, title, nextId, now),
                                     now)
                  /\ nextId' = nextId + 1
    /\ UNCHANGED <<selectedDayKey, todayKey>>
    /\ Persist

UpdateTaskTitle ==
    /\ \E taskId \in KnownIds, title \in RetitleInputs :
          /\ SchedulerStep("updateTaskTitle",
                           [NoArg EXCEPT !.taskId = taskId, !.title = title])
          /\ schedule' = mutateDay(schedule, selectedDayKey,
                             LAMBDA day : retitleInDay(day, taskId, title, now), now)
    /\ UNCHANGED <<selectedDayKey, todayKey, nextId>>
    /\ Persist

DeleteTask ==
    /\ \E taskId \in KnownIds :
          /\ SchedulerStep("deleteTask", [NoArg EXCEPT !.taskId = taskId])
          /\ schedule' = mutateDay(schedule, selectedDayKey,
                             LAMBDA day : deleteFromDay(day, taskId, now), now)
    /\ UNCHANGED <<selectedDayKey, todayKey, nextId>>
    /\ Persist

SetActiveTask ==
    /\ \E taskId \in KnownIds \cup {Null} :
          /\ SchedulerStep("setActiveTask", [NoArg EXCEPT !.taskId = taskId])
          /\ schedule' = mutateDay(schedule, selectedDayKey,
                             LAMBDA day : activateInDay(day, taskId, now), now)
    /\ UNCHANGED <<selectedDayKey, todayKey, nextId>>
    /\ Persist

\* deleteDay: the schedule the updater of setSchedule returns
\* deleteDayFrom putting the day it recreates under the key it deleted
deleteDayFromUnderOldKey(sched, dayKey, t) ==
    LET rest == [k \in DOMAIN sched \ {dayKey} |-> sched[k]]
    IN  IF DOMAIN rest # {} THEN rest ELSE [k \in {dayKey} |-> createEmptyDay(t, t)]

deleteDayFrom(sched, dayKey, t) ==
    LET rest == [k \in DOMAIN sched \ {dayKey} |-> sched[k]]
    IN  IF DOMAIN rest # {} THEN rest ELSE ensureDayExists(<<>>, t, t)

\* sortDaysDesc(Object.values(sched))[0].key: a day of the greatest dateISO
\* (of several such days the sort keeps the one inserted first, an order
\* the schedule as a function does not keep: any of them)
latestDayKeys(sched) ==
    {k \in DOMAIN sched :
        \A other \in DOMAIN sched : sched[other].dateISO <= sched[k].dateISO}

\* selectionAfterDelete keeping the selection
selectionAfterDeleteKeeping(nextSchedule, selected, today, dayKey) == {selected}

\* deleteDay: the keys setSelectedDayKey may be given
selectionAfterDelete(nextSchedule, selected, today, dayKey) ==
    IF selected # dayKey
    THEN {selected}
    ELSE IF today \in DOMAIN nextSchedule
         THEN {today}
         ELSE {nextSchedule[k].key : k \in latestDayKeys(nextSchedule)}

DeleteDay ==
    /\ \E dayKey \in DayKeyInputs :
          /\ SchedulerStep("deleteDay", [NoArg EXCEPT !.dayKey = dayKey])
          /\ schedule' = deleteDayFrom(schedule, dayKey, now)
          /\ selectedDayKey' \in
                selectionAfterDelete(schedule', selectedDayKey, todayKey, dayKey)
    /\ UNCHANGED <<todayKey, nextId>>
    /\ Persist

\* clearSchedule without setSelectedDayKey
ClearScheduleKeepingSelection ==
    /\ SchedulerStep("clearSchedule", NoArg)
    /\ schedule' = ensureDayExists(<<>>, now, now)
    /\ UNCHANGED <<selectedDayKey, todayKey, nextId>>
    /\ Persist

ClearSchedule ==
    /\ SchedulerStep("clearSchedule", NoArg)
    /\ schedule' = ensureDayExists(<<>>, now, now)
    /\ selectedDayKey' = toDayKey(now)
    /\ UNCHANGED <<todayKey, nextId>>
    /\ Persist

\* the events the engine emits at this moment: endedAt is now
EventInputs ==
    {makeSessionEvent(ml[1], StartOfTime, now, SecondsPerMinute, ml[2]) :
        ml \in {<<"focus", 0>>, <<"focus", SecondsPerMinute - 1>>,
                <<"break", SecondsPerMinute - 1>>, <<"long-break", 0>>}}

\* the engine emits an event and the effect of useScheduler hands it to logSession
LogSession ==
    /\ ops < MaxSchedOps
    /\ ops' = ops + 1
    /\ lastOp' = "logSession"
    /\ lastArg' = NoArg
    /\ \E event \in EventInputs :
          /\ emitted' = <<event>>
          /\ logged' = <<event>>
          /\ schedule' = logSessions(<<schedule, nextId>>, <<event>>, now)[1]
          /\ nextId' = logSessions(<<schedule, nextId>>, <<event>>, now)[2]
    /\ UNCHANGED <<timerVars, ran, ranAtEmit, focusExits, now, tzOffset,
                   selectedDayKey, todayKey>>
    /\ Persist

InitSched ==
    /\ now = StartOfTime
    /\ tzOffset \in TimeZones
    /\ InitEngine({DEFAULT_SETTINGS})
    /\ InitScheduler
    /\ InitMounted
    /\ InitHistory
    /\ InitTracker
    /\ InitNoShortcut

NextSched ==
    \/ AdvanceClock
    \/ UpdateTodayKey
    \/ SetSelectedDay
    \/ AddTask
    \/ UpdateTaskTitle
    \/ DeleteTask
    \/ SetActiveTask
    \/ DeleteDay
    \/ ClearSchedule
    \/ LogSession

\* The scheduler, the engine being a source of events
SchedSpec == InitSched /\ [][NextSched]_vars

\* The engine with the interval callback firing as long as it exists
FairSpec == Spec /\ WF_vars(Tick)

----------------------------------------------------------------------------
(* Claims about the engine                                                 *)

\* a step of the named user operation
StepOf(name) == lastOp' = name /\ ops' = ops + 1

\* C1: pause() sets isRunning to false and leaves timeLeft and mode as they
\* were when pausing, so that a later start() resumes from the same
\* remaining time.
PauseKeepsTimeLeft ==
    [][StepOf("pause") => (~isRunning' /\ timeLeft' = timeLeft /\ mode' = mode)]_vars

TimeLeftInRange == timeLeft \in 0..getDurationForMode(settings, mode)

\* C2: while the settings are unchanged, start, pause, skip, reset and tick
\* keep timeLeft an integer from 0 to the duration of the current mode.
TimeLeftStaysInRange ==
    /\ TimeLeftInRange
    /\ [][(settings' = settings /\ TimeLeftInRange) => TimeLeftInRange']_vars

TimeLeftInRangeWitness ==
    /\ lastOp = "skip"
    /\ ~isRunning
    /\ mode = "break"
    /\ getDurationForMode(settings, "focus") > getDurationForMode(settings, "break")
    /\ timeLeft = getDurationForMode(settings, "break")

\* a step that emits a SessionEvent: a mode transition by skip or by expiry
Transition == emitted' # <<>> /\ lastOp' \in {"skip", "expiry"}

\* C3: the N-th transition out of focus since the last reset leaves the
\* completed-focus counter at N and, long breaks being enabled with interval
\* k, goes to long-break exactly when N is a multiple of k and to break
\* otherwise; a transition out of break or long-break goes to focus and
\* leaves the counter unchanged.
LongBreakEveryKth ==
    [][Transition =>
        IF mode = "focus"
        THEN /\ focusExits' = focusExits + 1
             /\ completedFocusSessions' = focusExits'
             /\ settings.enableLongBreak =>
                    mode' = IF focusExits' % Whole(settings.longBreakInterval) = 0
                            THEN "long-break"
                            ELSE "break"
        ELSE /\ mode' = "focus"
             /\ completedFocusSessions' = completedFocusSessions
             /\ completedFocusSessions' = focusExits']_vars

LongBreakWitness ==
    /\ lastOp = "expiry"
    /\ settings.enableLongBreak
    /\ mode = "long-break"
    /\ focusExits = Whole(settings.longBreakInterval)
    /\ completedFocusSessions = focusExits

\* C4: reset() ends in focus mode, paused, with the full focus duration, the
\* counter at 0 and no last event, and emits no event.
ResetRestoresFocus ==
    lastOp = "reset" =>
        /\ mode = "focus"
        /\ timeLeft = getDurationForMode(settings, "focus")
        /\ ~isRunning
        /\ completedFocusSessions = 0
        /\ focusCounterRef = 0
        /\ sessionEvent = NullEvent
        /\ emitted = <<>>
        /\ logged = <<>>

ResetWitness ==
    /\ lastOp = "reset"
    /\ ops = MaxUserOps
    /\ ~settings.enableLongBreak

\* C5: skip() emits an event for the mode left, with that mode's duration as
\* scheduledDuration and the seconds the countdown ran in the interval as
\* elapsedSeconds, seconds run before a pause included.
SkipCreditsRunSeconds ==
    (lastOp = "skip" /\ ranAtEmit < MaxRan) =>
        /\ sessionEvent.scheduledDuration =
                getDurationForMode(settings, sessionEvent.mode)
        /\ sessionEvent.elapsedSeconds = ranAtEmit
        /\ sessionEvent.interrupted

WellFormedEvent(event) ==
    /\ 0 <= event.elapsedSeconds
    /\ event.elapsedSeconds <= event.scheduledDuration
    /\ event.interrupted = (event.elapsedSeconds < event.scheduledDuration)

\* C6: every SessionEvent emitted has 0 <= elapsedSeconds <= scheduledDuration
\* and interrupted = (elapsedSeconds < scheduledDuration).
EventsWellFormed ==
    /\ \A i \in 1..Len(emitted) : WellFormedEvent(emitted[i])
    /\ sessionEvent # NullEvent => WellFormedEvent(sessionEvent)

\* a skip while running, after the focus duration was shortened below timeLeft
EventsWellFormedWitness ==
    /\ lastOp = "skip"
    /\ isRunning
    /\ ranAtEmit > 0
    /\ sessionEvent.mode = "focus"
    /\ sessionEvent.elapsedSeconds = 0
    /\ sessionEvent.interrupted

\* what an expiry leaves
AfterExpiry ==
    lastOp = "expiry" =>
        /\ Len(emitted) = 1
        /\ sessionEvent = emitted[1]
        /\ sessionEvent.elapsedSeconds = sessionEvent.scheduledDuration
        /\ ~sessionEvent.interrupted
        /\ sessionEvent.mode # mode
        /\ timeLeft = getDurationForMode(settings, mode)
        /\ isRunning

\* C7: a running engine that stays running with no user operation reaches
\* zero and makes a mode transition: it emits an event for the mode left
\* with elapsedSeconds = scheduledDuration and interrupted = false, timeLeft
\* is the full duration of the next mode and the engine is still running.
\* (Steps other than a tick short of zero, which are user operations and
\* expiries, keep happening unless the engine ends up paused or with its
\* focus counter at the bound of the model.)
RunningReachesExpiry ==
    /\ []AfterExpiry
    /\ \/ []<><<lastOp' # "tick">>_vars
       \/ <>[](~isRunning \/ ~RoomForTransition)

ExpiryWitness ==
    /\ lastOp = "expiry"
    /\ sessionEvent.mode = "focus"
    /\ sessionEvent.elapsedSeconds = getDurationForMode(settings, "focus")
    /\ mode = "break"
    /\ isRunning

\* C8: a transition by skip or expiry emits one SessionEvent and hands it to
\* logSession once; start, pause, reset, updateSettings and a tick that does
\* not reach zero emit none and log none.
OneEventPerTransition ==
    /\ logged = emitted
    /\ Len(emitted) = IF lastOp \in {"skip", "expiry"} THEN 1 ELSE 0
    /\ emitted # <<>> => sessionEvent = emitted[1]

OneEventWitness ==
    /\ lastOp = "skip"
    /\ Len(logged) = 1
    /\ logged[1].interrupted
    /\ logged[1].elapsedSeconds > 0

----------------------------------------------------------------------------
(* Claims about the scheduler                                              *)

\* the tasks of a day whose stopwatch runs
runningTasks(day) ==
    {i \in 1..Len(day.tasks) : day.tasks[i].timerStartedAt # Null}

\* C9: every DaySchedule has at most one task with a non-null timerStartedAt.
AtMostOneStopwatch ==
    \A dayKey \in DOMAIN schedule :
        Cardinality(runningTasks(schedule[dayKey])) <= 1

\* a day of two tasks or more where the stopwatch was moved to the second one
AtMostOneStopwatchWitness ==
    \E dayKey \in DOMAIN schedule :
        /\ Len(schedule[dayKey].tasks) >= 2
        /\ runningTasks(schedule[dayKey]) = {2}
        /\ lastOp = "setActiveTask"

\* C10: in every DaySchedule a non-null activeTaskId is the id of one of its
\* tasks, and a task's timerStartedAt is non-null exactly when its id is
\* activeTaskId.
ActiveTaskHoldsStopwatch ==
    \A dayKey \in DOMAIN schedule :
        LET day == schedule[dayKey]
        IN  /\ day.activeTaskId # Null =>
                  \E i \in 1..Len(day.tasks) : day.tasks[i].id = day.activeTaskId
            /\ \A i \in 1..Len(day.tasks) :
                  (day.tasks[i].timerStartedAt # Null)
                      <=> (day.tasks[i].id = day.activeTaskId)

\* the active task was deleted and the stopwatch went to a task left
ActiveTaskWitness ==
    /\ lastOp = "deleteTask"
    /\ \E dayKey \in DOMAIN schedule :
          LET day == schedule[dayKey]
          IN  /\ day.activeTaskId # Null
              /\ \E i \in 1..Len(day.tasks) :
                    /\ day.tasks[i].id = day.activeTaskId
                    /\ day.tasks[i].timerStartedAt > day.tasks[i].createdAt

\* the tasks and the active task of a day, of a day the schedule lacks too
tasksOf(sched, dayKey) ==
    IF dayKey \in DOMAIN sched THEN sched[dayKey].tasks ELSE <<>>

activeOf(sched, dayKey) ==
    IF dayKey \in DOMAIN sched THEN sched[dayKey].activeTaskId ELSE Null

hasTask(tasks, id) == \E i \in 1..Len(tasks) : tasks[i].id = id

\* task stopped is task running with its stopwatch stopped at time t: the
\* whole seconds since timerStartedAt went to trackedSeconds
foldsElapsed(running, stopped, t) ==
    LET elapsed == stopped.trackedSeconds - running.trackedSeconds
    IN  /\ stopped.timerStartedAt = Null
        /\ elapsed >= 0
        /\ elapsed * 1000 <= t - running.timerStartedAt
        /\ t - running.timerStartedAt < (elapsed + 1) * 1000

\* C11: setActiveTask(x) on the selected day stops every running task other
\* than x, adding the whole seconds since timerStartedAt to trackedSeconds;
\* if x is a task of the day, x is the active task and runs (from now, or as
\* it ran before); otherwise no task runs and activeTaskId is null.
SetActiveTaskMovesStopwatch ==
    [][StepOf("setActiveTask") =>
        LET x == lastArg'.taskId
            before == tasksOf(schedule, selectedDayKey)
            after == tasksOf(schedule', selectedDayKey)
            found == x # Null /\ hasTask(before, x)
        IN  /\ Len(after) = Len(before)
            /\ activeOf(schedule', selectedDayKey) = IF found THEN x ELSE Null
            /\ \A i \in 1..Len(before) :
                  /\ after[i].id = before[i].id
                  /\ IF found /\ before[i].id = x
                     THEN /\ after[i].trackedSeconds = before[i].trackedSeconds
                          /\ after[i].timerStartedAt =
                                IF before[i].timerStartedAt # Null
                                THEN before[i].timerStartedAt
                                ELSE now
                     ELSE IF before[i].timerStartedAt # Null
                          THEN foldsElapsed(before[i], after[i], now)
                          ELSE /\ after[i].timerStartedAt = Null
                               /\ after[i].trackedSeconds =
                                      before[i].trackedSeconds]_vars

\* the stopwatch went from a task that ran for a second to another task
SetActiveTaskWitness ==
    /\ lastOp = "setActiveTask"
    /\ \E i, j \in 1..Len(tasksOf(schedule, selectedDayKey)) :
          LET tasks == tasksOf(schedule, selectedDayKey)
          IN  /\ tasks[i].id = lastArg.taskId
              /\ tasks[i].timerStartedAt = now
              /\ tasks[j].timerStartedAt = Null
              /\ tasks[j].trackedSeconds >= 1

\* a title of spaces only
isBlank(title) == \A i \in 1..Len(title) : title[i] = " "

\* short is long without the spaces at its ends
isTrimmed(short, long) ==
    /\ short # <<>> => short[1] # " " /\ short[Len(short)] # " "
    /\ \E lead \in 0..Len(long) :
          /\ lead + Len(short) <= Len(long)
          /\ short = SubSeq(long, lead + 1, lead + Len(short))
          /\ isBlank(SubSeq(long, 1, lead))
          /\ isBlank(SubSeq(long, lead + Len(short) + 1, Len(long)))

\* the days other than the selected one are the same after the step
OtherDaysUnchanged ==
    /\ DOMAIN schedule' \ {selectedDayKey} = DOMAIN schedule \ {selectedDayKey}
    /\ \A dayKey \in DOMAIN schedule \ {selectedDayKey} :
          schedule'[dayKey] = schedule[dayKey]

\* C12: addTask with a blank title leaves the schedule unchanged; otherwise
\* it appends one task to the selected day, with the trimmed title, zero
\* totals, no sessions and trackedSeconds = 0, which is active and runs from
\* now exactly when the day had no active task; an active task there was
\* stays active and running, and the new task does not run.
AddTaskAppendsOne ==
    [][StepOf("addTask") =>
        LET title == lastArg'.title
            before == tasksOf(schedule, selectedDayKey)
            after == tasksOf(schedule', selectedDayKey)
            active == activeOf(schedule, selectedDayKey)
            task == after[Len(after)]
        IN  IF isBlank(title)
            THEN schedule' = schedule
            ELSE /\ OtherDaysUnchanged
                 /\ Len(after) = Len(before) + 1
                 /\ \A i \in 1..Len(before) : after[i] = before[i]
                 /\ ~hasTask(before, task.id)
                 /\ isTrimmed(task.title, title)
                 /\ task.totalFocusSeconds = 0
                 /\ task.totalBreakSeconds = 0
                 /\ task.sessions = <<>>
                 /\ task.trackedSeconds = 0
                 /\ task.createdAt = now
                 /\ IF active = Null
                    THEN /\ activeOf(schedule', selectedDayKey) = task.id
                         /\ task.timerStartedAt = now
                    ELSE /\ activeOf(schedule', selectedDayKey) = active
                         /\ task.timerStartedAt = Null]_vars

\* a second task was added to a day whose first task is active
AddTaskWitness ==
    /\ lastOp = "addTask"
    /\ ~isBlank(lastArg.title)
    /\ lastArg.title[Len(lastArg.title)] = " "
    /\ LET tasks == tasksOf(schedule, selectedDayKey)
       IN  /\ Len(tasks) >= 2
           /\ tasks[Len(tasks)].timerStartedAt = Null
           /\ tasks[Len(tasks)].title = <<"a">>
           /\ activeOf(schedule, selectedDayKey) = tasks[1].id

\* C13: deleteTask(id) removes the task from the selected day; if it was the
\* active task, the first task left is active and runs from now, or
\* activeTaskId is null when no task is left; if it was not, activeTaskId and
\* the active task's timerStartedAt and trackedSeconds are unchanged.
DeleteTaskFallsThrough ==
    [][StepOf("deleteTask") =>
        LET x == lastArg'.taskId
            before == tasksOf(schedule, selectedDayKey)
            after == tasksOf(schedule', selectedDayKey)
            active == activeOf(schedule, selectedDayKey)
            remaining == SelectSeq(before, LAMBDA task : task.id # x)
        IN  /\ Len(after) = Len(remaining)
            /\ \A i \in 1..Len(remaining) : after[i].id = remaining[i].id
            /\ IF active = x
               THEN IF remaining = <<>>
                    THEN activeOf(schedule', selectedDayKey) = Null
                    ELSE /\ activeOf(schedule', selectedDayKey) = remaining[1].id
                         /\ after[1].timerStartedAt = now
               ELSE /\ activeOf(schedule', selectedDayKey) = active
                    /\ \A i \in 1..Len(remaining) :
                          remaining[i].id = active =>
                              /\ after[i].timerStartedAt = remaining[i].timerStartedAt
                              /\ after[i].trackedSeconds = remaining[i].trackedSeconds]_vars

\* the first of three tasks, the active one, was deleted
DeleteTaskWitness ==
    /\ lastOp = "deleteTask"
    /\ LET tasks == tasksOf(schedule, selectedDayKey)
       IN  /\ Len(tasks) >= 2
           /\ \A i \in 1..Len(tasks) : tasks[i].id > lastArg.taskId
           /\ activeOf(schedule, selectedDayKey) = tasks[1].id
           /\ tasks[1].timerStartedAt = now
           /\ tasks[2].timerStartedAt = Null

\* a step in which logSession is given an event
LogStep == lastOp' = "logSession" /\ ops' = ops + 1 /\ Len(logged') = 1

\* record is event with an id
recordsEvent(record, event) ==
    /\ record.mode = event.mode
    /\ record.startedAt = event.startedAt
    /\ record.endedAt = event.endedAt
    /\ record.scheduledDuration = event.scheduledDuration
    /\ record.elapsedSeconds = event.elapsedSeconds
    /\ record.interrupted = event.interrupted

\* task after is task before with event logged to it
logsEvent(before, after, event) ==
    /\ Len(after.sessions) = Len(before.sessions) + 1
    /\ SubSeq(after.sessions, 1, Len(before.sessions)) = before.sessions
    /\ recordsEvent(after.sessions[Len(after.sessions)], event)
    /\ after.totalFocusSeconds = before.totalFocusSeconds
            + IF event.mode = "focus" THEN event.elapsedSeconds ELSE 0
    /\ after.totalBreakSeconds = before.totalBreakSeconds
            + IF event.mode \in {"break", "long-break"}
              THEN event.elapsedSeconds
              ELSE 0
    /\ after.id = before.id
    /\ after.title = before.title
    /\ after.createdAt = before.createdAt
    /\ after.trackedSeconds = before.trackedSeconds
    /\ after.timerStartedAt = before.timerStartedAt

LogSessionDropsWithoutActiveTask ==
    [][LogStep =>
        LET dayKey == toDayKey(logged'[1].endedAt)
        IN  activeOf(schedule, dayKey) = Null => schedule' = schedule]_vars

\* the sum of elapsedSeconds over the session records of the given modes
RECURSIVE sumElapsed(_, _)
sumElapsed(sessions, modes) ==
    IF sessions = <<>>
    THEN 0
    ELSE (IF Head(sessions).mode \in modes THEN Head(sessions).elapsedSeconds ELSE 0)
         + sumElapsed(Tail(sessions), modes)

TotalsAreSums ==
    \A dayKey \in DOMAIN schedule :
        \A i \in 1..Len(schedule[dayKey].tasks) :
            LET task == schedule[dayKey].tasks[i]
            IN  /\ task.totalFocusSeconds = sumElapsed(task.sessions, {"focus"})
                /\ task.totalBreakSeconds =
                       sumElapsed(task.sessions, {"break", "long-break"})
                /\ task.totalFocusSeconds >= 0
                /\ task.totalBreakSeconds >= 0

\* a task there is before and after a step has its totals not decreased and
\* its sessions extended at the end
LedgerGrows ==
    \A dayKey \in DOMAIN schedule \cap DOMAIN schedule' :
        \A i \in 1..Len(schedule[dayKey].tasks) :
            \A j \in 1..Len(schedule'[dayKey].tasks) :
                LET before == schedule[dayKey].tasks[i]
                    after == schedule'[dayKey].tasks[j]
                IN  after.id = before.id =>
                        /\ after.totalFocusSeconds >= before.totalFocusSeconds
                        /\ after.totalBreakSeconds >= before.totalBreakSeconds
                        /\ Len(after.sessions) >= Len(before.sessions)
                        /\ SubSeq(after.sessions, 1, Len(before.sessions))
                               = before.sessions

\* C16: of every task, totalFocusSeconds is the sum of elapsedSeconds over
\* its focus records and totalBreakSeconds the sum over its break and
\* long-break records; both are >= 0 and never decrease while the task
\* lives, and its sessions only grow at the end.
LedgerIsSumOfSessions == []TotalsAreSums /\ [][LedgerGrows]_vars

\* a break and a long break were logged to a task
LedgerWitness ==
    \E dayKey \in DOMAIN schedule :
        \E i \in 1..Len(schedule[dayKey].tasks) :
            LET task == schedule[dayKey].tasks[i]
            IN  /\ Len(task.sessions) = 2
                /\ task.sessions[1].mode = "break"
                /\ task.sessions[2].mode = "long-break"
                /\ task.totalFocusSeconds = 0
                /\ task.totalBreakSeconds
                       = task.sessions[1].elapsedSeconds
                         + task.sessions[2].elapsedSeconds
                /\ task.sessions[1].elapsedSeconds > 0
                /\ task.sessions[2].elapsedSeconds > 0

\* C17: updateTaskTitle(id, title) with a blank title changes nothing of any
\* task, updatedAt included; with another title the task has the trimmed
\* title and updatedAt = now, and no other task changes.
UpdateTaskTitleRejectsBlank ==
    [][StepOf("updateTaskTitle") =>
        LET x == lastArg'.taskId
            title == lastArg'.title
            before == tasksOf(schedule, selectedDayKey)
            after == tasksOf(schedule', selectedDayKey)
        IN  IF isBlank(title)
            THEN after = before
            ELSE /\ Len(after) = Len(before)
                 /\ \A i \in 1..Len(before) :
                       IF before[i].id = x
                       THEN /\ isTrimmed(after[i].title, title)
                            /\ after[i].updatedAt = now
                       ELSE after[i] = before[i]]_vars

----------------------------------------------------------------------------
(* Claims about the settings of the engine                                 *)

\* the step changes the duration of a mode
DurationChanges ==
    \E m \in TimerModes :
        getDurationForMode(settings', m) # getDurationForMode(settings, m)

\* C18: updateSettings changing a duration while the engine is not running
\* makes timeLeft the new duration of the current mode; while the engine is
\* running it leaves timeLeft unchanged.
UpdateSettingsRecomputesWhenPaused ==
    [][(StepOf("updateSettings") /\ DurationChanges) =>
        IF isRunning
        THEN timeLeft' = timeLeft /\ isRunning'
        ELSE timeLeft' = getDurationForMode(settings', mode') /\ ~isRunning']_vars

\* the focus duration was shortened while the countdown ran: timeLeft is more
\* than the duration of the mode
UpdateSettingsWitness ==
    /\ lastOp = "updateSettings"
    /\ "focusMinutes" \in lastArg.given
    /\ isRunning
    /\ mode = "focus"
    /\ timeLeft > getDurationForMode(settings, mode)

\* C19: enableLongBreak turned off in long-break mode takes the engine to
\* break mode with the full break duration, emits no event and leaves the
\* completed-focus counter and isRunning as they were; no state has mode =
\* long-break with enableLongBreak = false.
LongBreakOffGoesToBreak ==
    /\ [](mode = "long-break" => settings.enableLongBreak)
    /\ [][(/\ StepOf("updateSettings")
           /\ mode = "long-break"
           /\ ~settings'.enableLongBreak) =>
            /\ mode' = "break"
            /\ timeLeft' = getDurationForMode(settings', "break")
            /\ emitted' = <<>>
            /\ logged' = <<>>
            /\ sessionEvent' = sessionEvent
            /\ completedFocusSessions' = completedFocusSessions
            /\ focusCounterRef' = focusCounterRef
            /\ isRunning' = isRunning]_vars

\* long breaks were turned off during a long break that was running
LongBreakOffWitness ==
    /\ lastOp = "updateSettings"
    /\ "enableLongBreak" \in lastArg.given
    /\ ~settings.enableLongBreak
    /\ mode = "break"
    /\ sessionEvent.mode = "focus"
    /\ completedFocusSessions = Whole(settings.longBreakInterval)
    /\ isRunning
    /\ timeLeft = getDurationForMode(settings, "break")
    /\ getDurationForMode(settings, "break")
           # getDurationForMode(settings, "long-break")

\* C20: updateSettings(partial) leaves a flag that partial gives a value
\* that is no boolean at its prior value, and leaves the fields partial does
\* not give at their prior values.
UpdateSettingsKeepsPriorFlag ==
    [][StepOf("updateSettings") =>
        \A f \in DOMAIN settings :
            (f \notin lastArg'.given \/ f \in lastArg'.nonBoolean) =>
                settings'[f] = settings[f]]_vars

----------------------------------------------------------------------------
(* React: the updates of setSchedule that one render applies               *)

\* An update that waits for the render: the operation, its arguments, the
\* selectedDayKey and todayKey of the render its handler closed over, the
\* Date.now() its handler read, the event of logSession
Update(op, arg, event) ==
    [op |-> op, taskId |-> arg.taskId, title |-> arg.title, dayKey |-> arg.dayKey,
     selected |-> selectedDayKey, today |-> todayKey, at |-> now, event |-> event]

\* previousOf giving the updater the schedule of the render of its handler
previousOfRender(shown, latest) == shown

\* setSchedule((previous) => ...): the updater is given the schedule the
\* updates before it have left, latest, not the one that was rendered, shown
previousOf(shown, latest) == latest

\* The update u of an operation that closed over selected and today, its
\* updater being given the schedule previous; st is the schedule, the
\* selected day and the next id that the updates before it have left.
applyTo(previous, st, u, selected, today, t) ==
    CASE u.op = "addTask" ->
            [st EXCEPT
                !.schedule = mutateDay(previous, selected,
                                 LAMBDA day : addTaskToDay(day, u.title, st.nextId, t),
                                 t),
                !.nextId = @ + 1]
      [] u.op = "deleteTask" ->
            [st EXCEPT
                !.schedule = mutateDay(previous, selected,
                                 LAMBDA day : deleteFromDay(day, u.taskId, u.at), t)]
      [] u.op = "setActiveTask" ->
            [st EXCEPT
                !.schedule = mutateDay(previous, selected,
                                 LAMBDA day : activateInDay(day, u.taskId, u.at), t)]
      [] u.op = "deleteDay" ->
            LET nextSchedule == deleteDayFrom(previous, u.dayKey, t)
            IN  [st EXCEPT
                    !.schedule = nextSchedule,
                    !.selectedDayKey =
                        IF selected = u.dayKey
                        THEN CHOOSE key \in selectionAfterDelete(
                                                nextSchedule, selected, today,
                                                u.dayKey) : TRUE
                        ELSE @]
      [] u.op = "clearSchedule" ->
            [st EXCEPT
                !.schedule = ensureDayExists(<<>>, u.at, u.at),
                !.selectedDayKey = toDayKey(u.at)]
      [] u.op = "logSession" ->
            [st EXCEPT
                !.schedule = logSession(previous, u.event, st.nextId, t),
                !.nextId = IF logsToTask(previous, u.event) THEN @ + 1 ELSE @]

\* the render applies the updates that wait, in the order they were queued
RECURSIVE applyQueue(_, _, _)
applyQueue(st, updates, t) ==
    IF updates = <<>>
    THEN st
    ELSE LET u == Head(updates)
         IN  applyQueue(applyTo(previousOf(schedule, st.schedule), st, u,
                                u.selected, u.today, t),
                        Tail(updates), t)

\* what is rendered: the schedule, the selected day, the next id
Rendered ==
    [schedule |-> schedule, selectedDayKey |-> selectedDayKey, nextId |-> nextId]

isUserUpdate(u) == u.op # "logSession"

\* a handler runs and its update waits for the render
Issue(u, arg) ==
    /\ mounted
    /\ ~crashed
    /\ ops < MaxSchedOps
    /\ ops' = ops + 1
    /\ lastOp' = "issue"
    /\ lastArg' = arg
    /\ emitted' = IF isUserUpdate(u) THEN <<>> ELSE <<u.event>>
    /\ logged' = <<>>
    /\ queue' = Append(queue, u)
    /\ UNCHANGED <<timerVars, schedVars, envVars, ran, ranAtEmit, focusExits,
                   storeVars, uiVars>>

\* a user operation, no other one waiting
IssueUserOp(op, arg) ==
    /\ \A i \in 1..Len(queue) : ~isUserUpdate(queue[i])
    /\ Issue(Update(op, arg, NullEvent), arg)

IssueAddTask ==
    \E title \in TitleInputs :
        /\ trim(title) # <<>>
        /\ IssueUserOp("addTask", [NoArg EXCEPT !.title = title])

IssueDeleteTask ==
    \E taskId \in KnownIds :
        IssueUserOp("deleteTask", [NoArg EXCEPT !.taskId = taskId])

IssueSetActiveTask ==
    \E taskId \in KnownIds \cup {Null} :
        IssueUserOp("setActiveTask", [NoArg EXCEPT !.taskId = taskId])

IssueDeleteDay ==
    \E dayKey \in DayKeyInputs :
        IssueUserOp("deleteDay", [NoArg EXCEPT !.dayKey = dayKey])

IssueClearSchedule == IssueUserOp("clearSchedule", NoArg)

\* the engine emits an event and the effect of useScheduler calls logSession,
\* no other event waiting
IssueEvent ==
    /\ \A i \in 1..Len(queue) : isUserUpdate(queue[i])
    /\ \E event \in EventInputs : Issue(Update("logSession", NoArg, event), NoArg)

\* the render, and the persist effects after it
Render ==
    /\ queue # <<>>
    /\ lastOp' = "render"
    /\ lastArg' = [NoArg EXCEPT !.batch = [i \in 1..Len(queue) |-> queue[i].op]]
    /\ emitted' = <<>>
    /\ logged' = [i \in 1..Len(SelectSeq(queue, LAMBDA u : ~isUserUpdate(u))) |->
                     SelectSeq(queue, LAMBDA u : ~isUserUpdate(u))[i].event]
    /\ \E st \in {applyQueue(Rendered, queue, now)} :
          /\ schedule' = st.schedule
          /\ selectedDayKey' = st.selectedDayKey
          /\ nextId' = st.nextId
          /\ PersistOf(settings, st.schedule, st.selectedDayKey)
    /\ queue' = <<>>
    /\ UNCHANGED <<timerVars, todayKey, now, tzOffset, ran, ranAtEmit,
                   focusExits, ops>>

\* setSelectedDay, no update waiting
SetSelectedDayRendered ==
    /\ queue = <<>>
    /\ SetSelectedDay

NextBatch ==
    \/ IssueAddTask
    \/ IssueDeleteTask
    \/ IssueSetActiveTask
    \/ IssueDeleteDay
    \/ IssueClearSchedule
    \/ IssueEvent
    \/ Render
    \/ SetSelectedDayRendered

\* The scheduler with the updates of an event and of a user operation
\* applied by one render
BatchSpec == InitSched /\ [][NextBatch]_vars

----------------------------------------------------------------------------
(* The countdown and the wall clock                                        *)

\* the seconds of wall-clock time the model lets pass
MaxWallSeconds == 125

\* whole seconds of wall-clock time since the interval began
wallSeconds == (now - sessionStartRef) \div 1000

\* A second of wall-clock time passes while the countdown runs, with or
\* without a callback of the interval following it
Second ==
    /\ isRunning
    /\ now + 1000 <= StartOfTime + MaxWallSeconds * 1000
    /\ now' = now + 1000
    /\ UNCHANGED <<timerVars, schedVars, nextId, tzOffset, histVars, storeVars,
                   queue, uiVars>>

\* setInterval(callback, 1000): a callback runs, never more of them than
\* seconds have passed; the browser may delay or drop them
TickInTime ==
    /\ sessionDurationRef - timeLeft < wallSeconds
    /\ Tick

NextClock ==
    \/ Start
    \/ Second
    \/ TickInTime

\* The engine started once and left running while wall-clock time passes
ClockSpec == Init /\ [][NextClock]_vars

----------------------------------------------------------------------------
(* Mounting: the first render, the load from localStorage, the first writes *)

\* a day before the time of mounting, when what is stored was written
StoredTime == StartOfTime - MsPerDay

\* the ids of what is stored are 1, 2 and 3
FirstFreeId == 4

\* a schedule the hook wrote: a day of two tasks, the first one active, its
\* stopwatch running, with one focus session logged
WrittenSchedule ==
    LET dayKey == toDayKey(StoredTime)
        one == mutateDay(ensureDayExists(<<>>, StoredTime, StoredTime), dayKey,
                         LAMBDA day : addTaskToDay(day, <<"a">>, 1, StoredTime),
                         StoredTime)
        two == mutateDay(one, dayKey,
                         LAMBDA day : addTaskToDay(day, <<"b">>, 2, StoredTime),
                         StoredTime)
    IN  logSession(two,
                   makeSessionEvent("focus", StoredTime - 40000, StoredTime,
                                    SecondsPerMinute, 20),
                   3, StoredTime)

\* a schedule an earlier version wrote: the day has neither createdAt nor
\* activeTaskId; its first task has sessions and no totals, no
\* trackedSeconds, no updatedAt and a timerStartedAt that is a string; the
\* second has but id and title; the third has every field, totals that are
\* not the sums of its sessions and a timerStartedAt that is not finite; the
\* fourth has every field and a stopwatch that runs
LegacyScheduleText ==
    LET sessions ==
            JArray(<<stringifySession(sessionRecord(11,
                         makeSessionEvent("focus", 0, 1000, SecondsPerMinute, 30))),
                     stringifySession(sessionRecord(12,
                         makeSessionEvent("break", 0, 1000, SecondsPerMinute, 50))),
                     stringifySession(sessionRecord(13,
                         makeSessionEvent("long-break", 0, 1000, SecondsPerMinute, 55)))>>)
        first == JObject(<< <<"id", JString(1)>>, <<"title", JString(<<"a">>)>>,
                            <<"createdAt", JNumber(5)>>, <<"sessions", sessions>>,
                            <<"timerStartedAt", JString("abc")>> >>)
        second == JObject(<< <<"id", JString(2)>>, <<"title", JString(<<"b">>)>> >>)
        third == JObject(<< <<"id", JString(3)>>, <<"title", JString(<<"c">>)>>,
                            <<"createdAt", JNumber(5)>>, <<"updatedAt", JNumber(6)>>,
                            <<"totalFocusSeconds", JNumber(7)>>,
                            <<"totalBreakSeconds", JNumber(0)>>,
                            <<"sessions", sessions>>,
                            <<"trackedSeconds", JNumber(4)>>,
                            <<"timerStartedAt", JNumber(PosInfinity)>> >>)
        fourth == stringifyTask(newTask(3, <<"d">>, StoredTime, TRUE))
    IN  JObject(<< <<toDayKey(StoredTime),
                     JObject(<< <<"key", JString(toDayKey(StoredTime))>>,
                                <<"dateISO", JString(toISODate(StoredTime))>>,
                                <<"tasks", JArray(<<first, second, third, fourth>>)>> >>)>> >>)

\* settings an earlier version wrote: a field is missing, one is a string
LegacySettingsText ==
    JObject(<< <<"focusMinutes", JNumber(Num(2))>>,
               <<"breakMinutes", JString("abc")>>,
               <<"longBreakMinutes", JNumber(Num(2))>>,
               <<"enableLongBreak", JBoolean(FALSE)>> >>)

\* what localStorage holds when the page is opened: nothing; what the hooks
\* wrote; what an earlier version wrote; texts that are no JSON
StoredItems ==
    << [settings |-> NoItem, schedule |-> NoItem, selectedDay |-> NoItem],
       [settings |-> stringifySettings(
                         [DEFAULT_SETTINGS EXCEPT !.focusMinutes = Num(2)]),
        schedule |-> stringifySchedule(WrittenSchedule),
        selectedDay |-> JString(toDayKey(StoredTime))],
       [settings |-> LegacySettingsText, schedule |-> LegacyScheduleText,
        selectedDay |-> JString(toDayKey(StoredTime) - 1)],
       [settings |-> InvalidText, schedule |-> InvalidText,
        selectedDay |-> JString(toDayKey(StoredTime))] >>

\* the first render: the initial values of useState and useRef
InitFirstRender ==
    /\ InitEngine({DEFAULT_SETTINGS})
    /\ schedule = <<>>
    /\ selectedDayKey = toDayKey(now)
    /\ todayKey = toDayKey(now)
    /\ nextId = FirstFreeId
    /\ hydrated = FALSE
    /\ scheduleHydrated = FALSE
    /\ mounted = FALSE
    /\ crashed = FALSE
    /\ queue = <<>>
    /\ written = <<>>

InitStore ==
    /\ now = StartOfTime
    /\ tzOffset = 0
    /\ InitFirstRender
    /\ storageFails = FALSE
    /\ \E i \in 1..Len(StoredItems) : storage = StoredItems[i]
    /\ InitHistory
    /\ InitTracker
    /\ InitNoShortcut

\* the effects of useTimer after the first render r, in the order of their
\* declaration: the refs, loadSettings, and the recompute of timeLeft, which
\* closes over the settings of r and is the last to set timeLeft
mountEffects(r, item, t) ==
    LET refs == [r EXCEPT
                    !.sessionDurationRef = getDurationForMode(r.settings, r.mode),
                    !.sessionStartRef = t,
                    !.timeLeftRef = r.timeLeft]
    IN  [loadSettings(refs, item) EXCEPT
            !.timeLeft = getDurationForMode(r.settings, r.mode)]

MountStep(name) ==
    /\ ~crashed
    /\ lastOp' = name
    /\ lastArg' = NoArg
    /\ emitted' = <<>>
    /\ logged' = <<>>
    /\ UNCHANGED <<ran, ranAtEmit, focusExits, ops, envVars, todayKey, queue,
                   storageFails>>

\* the effects of the first render: both hooks load; the persist effects
\* run with the flags of the first render
MountLoad ==
    /\ ~hydrated
    /\ MountStep("load")
    /\ \E w \in {mountEffects(Engine, storage.settings, now)} : SetTimer(w)
    /\ \E loaded \in {hydrateSchedule(storage.schedule, storage.selectedDay,
                                      selectedDayKey, now)} :
          /\ schedule' = loaded.schedule
          /\ selectedDayKey' = loaded.selectedDayKey
    /\ WriteItems(writingKeys(StorageKeys, hydrated, scheduleHydrated),
                  settings, schedule, selectedDayKey)
    /\ DisplayEffect(schedule', selectedDayKey')
    /\ hydrated' = TRUE
    /\ scheduleHydrated' = TRUE
    /\ UNCHANGED <<mounted, editing, requests, keyVars>>

\* the effects of the render that follows the load: those of useTimer whose
\* dependencies the loaded settings changed, the persist effects, whose
\* flags changed, and the effect that keeps today's day
MountPersist ==
    /\ hydrated
    /\ ~mounted
    /\ MountStep("mount")
    /\ \E w \in {flushEffects([Engine EXCEPT !.settings = DEFAULT_SETTINGS],
                              Engine, now)} : SetTimer(w)
    /\ schedule' = ensureDayExists(schedule, now, now)
    /\ WriteItems(writingKeys(StorageKeys, hydrated, scheduleHydrated),
                  settings, schedule, selectedDayKey)
    /\ DisplayEffect(schedule', selectedDayKey)
    /\ mounted' = TRUE
    /\ UNCHANGED <<selectedDayKey, hydrated, scheduleHydrated, editing,
                   requests, keyVars>>

\* the quota is used up, or storage is turned off: from now on setItem throws
StorageBreaks ==
    /\ ~storageFails
    /\ ~crashed
    /\ storageFails' = TRUE
    /\ UNCHANGED <<timerVars, schedVars, envVars, histVars, queue, storage,
                   hydrated, scheduleHydrated, mounted, crashed, written,
                   uiVars>>

NextStore ==
    \/ MountLoad
    \/ MountPersist
    \/ StorageBreaks
    \/ UpdateSettings
    \/ AddTask
    \/ SetSelectedDay
    \/ DeleteDay
    \/ ClearSchedule

\* The hooks from the first render on, over a localStorage that may fail
StoreSpec == InitStore /\ [][NextStore]_vars

----------------------------------------------------------------------------
(* The settings given arbitrary values                                     *)

NumberFields ==
    {"focusMinutes", "breakMinutes", "longBreakMinutes", "longBreakInterval"}

\* zero, a negative number, a half, one and a half, three, NaN, Infinity
NumberInputs == {0, 0 - Num(1), 1, Num(1) + 1, Num(3), NaN, PosInfinity}

NumberPartials ==
    {[g \in {f} |-> v] : f \in NumberFields, v \in NumberInputs}

\* a number field given a string
TextPartials == {[g \in {f} |-> t] : f \in NumberFields, t \in Texts}

UpdateSettingsArbitrary ==
    /\ UserOp("updateSettings")
    /\ \/ \E partial \in NumberPartials : updateSettingsWith(partial)
       \/ \E partial \in TextPartials : updateSettingsWith(partial)

NextSettings ==
    \/ UpdateSettingsArbitrary
    \/ Start
    \/ Pause

SettingsSpec == Init /\ [][NextSettings]_vars

\* C21: after any updateSettings calls with arbitrary inputs the stored
\* focusMinutes, breakMinutes, longBreakMinutes and longBreakInterval are
\* at least 1, the duration of every mode is at least 60 seconds, and
\* longBreakInterval is a whole number.
SettingsStayAtLeastOne ==
    /\ \A f \in NumberFields : settings[f] >= Num(1)
    /\ \A m \in TimerModes : getDurationForMode(settings, m) >= SecondsPerMinute
    /\ settings.longBreakInterval = Num(Whole(settings.longBreakInterval))

\* the parts of C21 about the durations and the interval alone
DurationsStayAtLeastOneMinute ==
    /\ \A m \in TimerModes : getDurationForMode(settings, m) >= SecondsPerMinute
    /\ settings.longBreakInterval = Num(Whole(settings.longBreakInterval))
    /\ settings.longBreakInterval >= Num(1)

----------------------------------------------------------------------------
(* Claims about the days of the scheduler                                  *)

isEmptyDay(day) == day.tasks = <<>> /\ day.activeTaskId = Null

\* the day under key has the greatest dateISO of the schedule
isLatestDay(sched, key) ==
    /\ key \in DOMAIN sched
    /\ \A other \in DOMAIN sched : sched[other].dateISO <= sched[key].dateISO

ClearScheduleLeavesToday ==
    [][StepOf("clearSchedule") =>
        /\ DOMAIN schedule' = {toDayKey(now)}
        /\ isEmptyDay(schedule'[toDayKey(now)])
        /\ schedule'[toDayKey(now)].key = toDayKey(now)
        /\ selectedDayKey' = toDayKey(now)]_vars

\* the schedule was cleared after tasks had been added, past midnight and
\* before the todayKey of the hook was refreshed
ClearScheduleWitness ==
    /\ lastOp = "clearSchedule"
    /\ nextId > 1
    /\ todayKey # toDayKey(now)
    /\ DOMAIN schedule = {toDayKey(now)}
    /\ selectedDayKey = toDayKey(now)

----------------------------------------------------------------------------
(* Claims about localStorage                                               *)

\* what loading the text of sched gives, at a later time
loadedBack(sched) ==
    sanitizeSchedule(safeParseSchedule(stringifySchedule(sched)), now + ClockStep)

\* C25: a schedule built through the operations, written to localStorage
\* and loaded back through safeParseSchedule and sanitizeSchedule, is the
\* schedule it was; sanitizing what was loaded once more changes nothing.
StoredScheduleLoadsBack ==
    /\ storage.schedule = stringifySchedule(schedule)
    /\ loadedBack(schedule) = schedule
    /\ sanitizeSchedule(loadedBack(schedule), now + 2 * ClockStep)
           = loadedBack(schedule)

\* two days are stored, one with an active task whose stopwatch runs and
\* which has a session
StoredScheduleWitness ==
    /\ Cardinality(DOMAIN schedule) >= 2
    /\ storage.schedule = stringifySchedule(schedule)
    /\ \E dayKey \in DOMAIN schedule :
          \E i \in 1..Len(schedule[dayKey].tasks) :
              LET task == schedule[dayKey].tasks[i]
              IN  /\ task.id = schedule[dayKey].activeTaskId
                  /\ task.timerStartedAt # Null
                  /\ task.sessions # <<>>
                  /\ Len(schedule[dayKey].tasks) >= 2

\* task is what the load makes of the stored task given
normalizedFrom(given, task) ==
    /\ "sessions" \notin DOMAIN given => task.sessions = <<>>
    /\ "totalFocusSeconds" \notin DOMAIN given =>
          task.totalFocusSeconds = sumElapsed(task.sessions, {"focus"})
    /\ "totalBreakSeconds" \notin DOMAIN given =>
          task.totalBreakSeconds = sumElapsed(task.sessions, TimerModes \ {"focus"})
    /\ "trackedSeconds" \notin DOMAIN given => task.trackedSeconds = 0
    /\ \A f \in DOMAIN given \ {"timerStartedAt"} : task[f] = given[f]
    /\ LET startedAt == Field(given, "timerStartedAt", Undefined)
       IN  task.timerStartedAt =
               IF isString(startedAt)
               THEN Null
               ELSE IF startedAt \in {NaN, PosInfinity, NegInfinity, Undefined}
                    THEN Null
                    ELSE startedAt

WritesFollowHydration ==
    /\ [][written' # <<>> => hydrated /\ scheduleHydrated]_vars
    /\ [][(lastOp' = "mount" /\ ~storageFails) =>
            storage' = persisted(settings', schedule', selectedDayKey')]_vars
    /\ [][(mounted /\ ~storageFails) =>
            /\ settings' # settings =>
                  /\ \E i \in 1..Len(written') : written'[i].key = "settings"
                  /\ storage'.settings = stringifySettings(settings')
            /\ schedule' # schedule =>
                  /\ \E i \in 1..Len(written') : written'[i].key = "schedule"
                  /\ storage'.schedule = stringifySchedule(schedule')
            /\ selectedDayKey' # selectedDayKey =>
                  /\ \E i \in 1..Len(written') : written'[i].key = "selectedDay"
                  /\ storage'.selectedDay = JString(selectedDayKey')]_vars

\* settings, a schedule and a selected day were stored, were loaded and
\* written again, and a task added afterwards is in localStorage
WritesFollowHydrationWitness ==
    /\ lastOp = "addTask"
    /\ settings # DEFAULT_SETTINGS
    /\ selectedDayKey # todayKey
    /\ Len(schedule[selectedDayKey].tasks) >= 3
    /\ \E i \in 1..Len(written) : written[i].key = "schedule" /\ written[i].ok
    /\ storage = persisted(settings, schedule, selectedDayKey)

\* C28: setItem throwing, for the settings key as for the schedule and the
\* selected-day key, the error is swallowed: nothing is unmounted.
StorageFailureIsNeverFatal ==
    [][(\E i \in 1..Len(written') : ~written'[i].ok) => ~crashed']_vars

\* the part of C28 about the settings key alone
SettingsWriteFailureIsNotFatal ==
    [][(\A i \in 1..Len(written') : written'[i].key = "settings") => ~crashed']_vars

----------------------------------------------------------------------------
(* Claims about the order of updates                                       *)

\* the updates applied one after the other, each operation running on what
\* the one before it left: its updater gets that schedule, its handler has
\* closed over that selected day
RECURSIVE applyInTurn(_, _, _)
applyInTurn(st, updates, t) ==
    IF updates = <<>>
    THEN st
    ELSE applyInTurn(applyTo(st.schedule, st, Head(updates), st.selectedDayKey,
                             todayKey, t),
                     Tail(updates), t)

\* C29: a render that applies the update of an event together with that of
\* addTask, deleteTask, setActiveTask, deleteDay or clearSchedule, in either
\* order, leaves what applying the two one after the other in that order
\* leaves: the schedule, the selected day and the ids given out.
BatchEqualsInTurn ==
    [][lastOp' = "render" =>
        LET st == applyInTurn(Rendered, queue, now)
        IN  /\ schedule' = st.schedule
            /\ selectedDayKey' = st.selectedDayKey
            /\ nextId' = st.nextId]_vars

\* a render applied deleteTask of the active task and then an event: the
\* event was folded into the task that became active, the only one left
BatchWitness ==
    /\ lastOp = "render"
    /\ lastArg.batch = <<"deleteTask", "logSession">>
    /\ logged # <<>>
    /\ Len(tasksOf(schedule, todayKey)) = 1
    /\ schedule[todayKey].tasks[1].id = schedule[todayKey].activeTaskId
    /\ Len(schedule[todayKey].tasks[1].sessions) = 1

----------------------------------------------------------------------------
(* Claims about wall-clock time                                            *)

\* C30: when a callback of the interval has run after n seconds of
\* wall-clock time in an interval of duration D, timeLeft is max(0, D - n),
\* and the elapsedSeconds of an emitted event are the whole seconds between
\* its startedAt and its endedAt.
CountdownTracksWallClock ==
    /\ (isRunning /\ lastOp = "tick") =>
           timeLeft = Max(0, sessionDurationRef - wallSeconds)
    /\ \A i \in 1..Len(emitted) :
           emitted[i].elapsedSeconds =
               (emitted[i].endedAt - emitted[i].startedAt) \div 1000

\* the callbacks never run ahead of the wall clock: the countdown has
\* counted at most the seconds that have passed
CountdownNeverRunsAhead ==
    isRunning => sessionDurationRef - timeLeft <= wallSeconds

----------------------------------------------------------------------------
(* Claims about skip and about the progress of the countdown               *)

\* C34: skip() leaves isRunning as it was and moves to another mode; skipped
\* while paused, timeLeft is the full duration of the new mode; a skip out
\* of focus adds exactly 1 to completedFocusSessions, whatever had elapsed.
SkipKeepsIsRunning ==
    [][StepOf("skip") =>
        /\ isRunning' = isRunning
        /\ mode' = nextModeAfter(settings, mode, completedFocusSessions + 1)
        /\ mode' # mode
        /\ ~isRunning => timeLeft' = getDurationForMode(settings', mode')
        /\ mode = "focus" =>
               completedFocusSessions' = completedFocusSessions + 1]_vars

\* a skip out of focus while paused, no second having elapsed
SkipPausedWitness ==
    /\ lastOp = "skip"
    /\ ~isRunning
    /\ mode = "break"
    /\ timeLeft = getDurationForMode(settings, "break")
    /\ sessionEvent.mode = "focus"
    /\ sessionEvent.elapsedSeconds = 0
    /\ completedFocusSessions = 1

\* a skip while running leaves the countdown running
SkipRunningWitness ==
    /\ lastOp = "skip"
    /\ isRunning
    /\ mode = "break"

\* PomodoroTimer: progressValue
progressValue(total, left) ==
    IF total = 0 THEN 0 ELSE (200 * (total - left) + total) \div (2 * total)

\* C35: whatever the operations, updateSettings among them, timeLeft is at
\* most the totalDuration of the current mode and progressValue is within
\* 0..100.
ProgressStaysInRange ==
    /\ timeLeft <= getDurationForMode(settings, mode)
    /\ progressValue(getDurationForMode(settings, mode), timeLeft) \in 0..100

\* while the countdown is paused, timeLeft is at most the totalDuration
ProgressInRangeWhenPaused ==
    ~isRunning => timeLeft <= getDurationForMode(settings, mode)

----------------------------------------------------------------------------
(* Claims about the schedule as a whole                                    *)

\* C36: once loaded, whatever the operations and day changes, the schedule
\* has a day, selectedDayKey is the key of one of its days, and every day is
\* stored under its own key.
ScheduleKeepsSelectedDay ==
    /\ DOMAIN schedule # {}
    /\ selectedDayKey \in DOMAIN schedule
    /\ \A k \in DOMAIN schedule : schedule[k].key = k

\* the last day was deleted, a day that is not today: the schedule is
\* today's day, empty and selected
ScheduleKeepsSelectedDayWitness ==
    /\ lastOp = "deleteDay"
    /\ lastArg.dayKey # toDayKey(now)
    /\ lastArg.dayKey >= 0
    /\ written # <<>>
    /\ DOMAIN schedule = {toDayKey(now)}
    /\ selectedDayKey = toDayKey(now)
    /\ schedule[selectedDayKey].createdAt = now
    /\ now > StartOfTime

\* the same after the load from localStorage and the mounting
LoadedScheduleKeepsSelectedDay ==
    (hydrated /\ scheduleHydrated /\ ~crashed) => ScheduleKeepsSelectedDay

\* C37: the dateISO of every day is the calendar date its key names, so no
\* two days share a dateISO.
DateISOMatchesKey ==
    /\ \A k \in DOMAIN schedule : k >= 0 => schedule[k].dateISO = k
    /\ \A k1, k2 \in DOMAIN schedule :
          (k1 >= 0 /\ k2 >= 0 /\ k1 # k2) =>
              schedule[k1].dateISO # schedule[k2].dateISO

\* in the time zone of UTC the two agree
DateISOMatchesKeyInUTC == tzOffset = 0 => DateISOMatchesKey

\* C38: addTask, updateTaskTitle, deleteTask and setActiveTask leave every
\* day but the selected one as it was, a running stopwatch included.
TaskOperationsChangeSelectedDayOnly ==
    [][(\E name \in {"addTask", "updateTaskTitle", "deleteTask", "setActiveTask"} :
            StepOf(name)) =>
        /\ DOMAIN schedule' = DOMAIN schedule
        /\ \A k \in DOMAIN schedule \ {selectedDayKey} :
              schedule'[k] = schedule[k]]_vars

\* setActiveTask has started a stopwatch while one runs on another day
TwoDaysRunningWitness ==
    /\ lastOp = "setActiveTask"
    /\ runningTasks(schedule[selectedDayKey]) # {}
    /\ schedule[selectedDayKey].tasks[1].timerStartedAt = now
    /\ \E k \in DOMAIN schedule \ {selectedDayKey} :
          runningTasks(schedule[k]) # {}

----------------------------------------------------------------------------
(* Claims about the periodic timers                                        *)

\* the countdown and the stopwatches of the viewed day in one component tree
NextIntervals ==
    \/ Start
    \/ Pause
    \/ Reset
    \/ Skip
    \/ ran < MaxRan /\ Tick
    \/ AddTask
    \/ SetActiveTask
    \/ DeleteTask
    \/ SetSelectedDay

InitIntervals ==
    /\ now = StartOfTime
    /\ tzOffset = 0
    /\ InitEngine({DEFAULT_SETTINGS})
    /\ InitScheduler
    /\ InitMounted
    /\ InitHistory
    /\ InitTracker
    /\ InitNoShortcut

IntervalSpec == InitIntervals /\ [][NextIntervals]_vars

\* one countdown interval while isRunning and none otherwise, its handle in
\* intervalRef; one display interval while a task of the viewed day runs
OneIntervalEach ==
    /\ intervals = IF isRunning THEN 1 ELSE 0
    /\ intervalRef # Null <=> isRunning
    /\ displayIntervals =
          IF hasRunningTask(schedule, selectedDayKey) THEN 1 ELSE 0

\* C31: after any sequence of start, pause, reset, skip and stopwatch
\* operations the countdown tick exists exactly while isRunning and the
\* display tick exactly while a task of the viewed day runs, one of each at
\* most; start while running changes nothing of the timer, and a tick takes
\* at most one second off timeLeft
PeriodicTimersFollowTheirConditions ==
    [][/\ OneIntervalEach
       /\ OneIntervalEach'
       /\ StepOf("start") /\ isRunning => UNCHANGED timerVars
       /\ lastOp' \in {"tick", "expiry"} =>
              /\ isRunning
              /\ mode' = mode => timeLeft' >= timeLeft - 1]_vars

\* start was called while the countdown ran, a task of the viewed day running
StartWhileRunningWitness ==
    /\ lastOp = "start"
    /\ ran > 0
    /\ isRunning
    /\ intervals = 1
    /\ hasRunningTask(schedule, selectedDayKey)
    /\ displayIntervals = 1

\* the countdown was paused and the running task of the viewed day stopped
TimersTornDownWitness ==
    /\ lastOp = "pause"
    /\ intervals = 0
    /\ intervalRef = Null
    /\ \E i \in 1..Len(tasksOfSelected(schedule, selectedDayKey)) :
          tasksOfSelected(schedule, selectedDayKey)[i].trackedSeconds >= 0
    /\ displayIntervals = 0

----------------------------------------------------------------------------
(* TaskTracker: the displayed stopwatch and the edit form                  *)

secondsToHoursMinutes(seconds) ==
    [hours |-> seconds \div 3600, minutes |-> (seconds % 3600) \div 60]

hoursMinutesToSeconds(hours, minutes) == (hours * 3600) + (minutes * 60)

\* displayed time that leaves out what earlier runs have stored
liveTrackedSecondsOfRun(task, current) ==
    IF task.timerStartedAt # Null
    THEN Max(0, FloorDiv(current - task.timerStartedAt, 1000))
    ELSE 0

\* the tracked time displayed for a task, currentTime being current
liveTrackedSeconds(task, current) ==
    task.trackedSeconds +
        (IF task.timerStartedAt # Null
         THEN Max(0, FloorDiv(current - task.timerStartedAt, 1000))
         ELSE 0)

\* the scheduler's updateTaskTrackedTime on the day of the task
updateTaskTrackedTime(day, taskId, seconds) ==
    [day EXCEPT
        !.tasks = MapSeq(@, LAMBDA task :
            IF task.id = taskId
            THEN [task EXCEPT !.trackedSeconds = seconds]
            ELSE task)]

\* the minutes typed into the edit form
MinuteInputs == {2}

TitleRequest(taskId, title) ==
    [op |-> "updateTaskTitle", taskId |-> taskId, title |-> title,
     seconds |-> Null]

TrackedTimeRequest(taskId, seconds) ==
    [op |-> "updateTaskTrackedTime", taskId |-> taskId, title |-> <<>>,
     seconds |-> seconds]

\* a step of TaskTracker
TrackerStep(name) ==
    /\ mounted
    /\ ~crashed
    /\ lastOp' = name
    /\ lastArg' = NoArg
    /\ emitted' = <<>>
    /\ logged' = <<>>
    /\ UNCHANGED <<timerVars, ran, ranAtEmit, focusExits, envVars, todayKey,
                   selectedDayKey, queue>>

\* a step of TaskTracker that calls none of its props
LocalStep(name) ==
    /\ TrackerStep(name)
    /\ UNCHANGED <<schedule, storeVars, keyVars, displayIntervals>>

\* the callback of the display interval
DisplayTick ==
    /\ displayIntervals > 0
    /\ LocalStep("displayTick")
    /\ currentTime' = now
    /\ UNCHANGED <<ops, editing, requests>>

\* a step of the edit form
FormStep(name) ==
    /\ ops < MaxSchedOps
    /\ ops' = ops + 1
    /\ requests' = <<>>

BeginEditingTask ==
    /\ FormStep("beginEditingTask")
    /\ LocalStep("beginEditingTask")
    /\ \E i \in 1..Len(tasksOfSelected(schedule, selectedDayKey)) :
          LET task == tasksOfSelected(schedule, selectedDayKey)[i]
          IN  editing' =
                [taskId |-> task.id, title |-> task.title,
                 hours |-> secondsToHoursMinutes(task.trackedSeconds).hours,
                 minutes |-> secondsToHoursMinutes(task.trackedSeconds).minutes]
    /\ UNCHANGED currentTime

\* the user types into the title or into the minutes of the open form
EditField ==
    /\ editing.taskId # Null
    /\ FormStep("editField")
    /\ LocalStep("editField")
    /\ \/ \E title \in RetitleInputs : editing' = [editing EXCEPT !.title = title]
       \/ \E m \in MinuteInputs : editing' = [editing EXCEPT !.minutes = m]
    /\ UNCHANGED currentTime

\* submit that asks for the tracked time whatever the stopwatch does
submitRequestsAlways(form, tasks) ==
    IF trim(form.title) = <<>>
    THEN <<>>
    ELSE << TitleRequest(form.taskId, trim(form.title)),
            TrackedTimeRequest(form.taskId,
                               hoursMinutesToSeconds(form.hours, form.minutes)) >>

\* the calls handleEditingSubmit makes on onUpdateTaskTitle and on
\* onUpdateTaskTrackedTime, tasks being those of the selected day
submitRequests(form, tasks) ==
    LET found == {i \in 1..Len(tasks) : tasks[i].id = form.taskId}
        isTimerRunning ==
            IF found = {}
            THEN TRUE
            ELSE \E i \in found :
                    /\ \A j \in found : i <= j
                    /\ tasks[i].timerStartedAt # Null
    IN  IF trim(form.title) = <<>>
        THEN <<>>
        ELSE <<TitleRequest(form.taskId, trim(form.title))>> \o
             (IF ~isTimerRunning
              THEN <<TrackedTimeRequest(
                        form.taskId,
                        hoursMinutesToSeconds(form.hours, form.minutes))>>
              ELSE <<>>)

RECURSIVE applyRequests(_, _, _, _)
applyRequests(sched, dayKey, calls, t) ==
    IF calls = <<>>
    THEN sched
    ELSE applyRequests(
             IF Head(calls).op = "updateTaskTitle"
             THEN mutateDay(sched, dayKey,
                      LAMBDA day : retitleInDay(day, Head(calls).taskId,
                                                Head(calls).title, t), t)
             ELSE mutateDay(sched, dayKey,
                      LAMBDA day : updateTaskTrackedTime(day, Head(calls).taskId,
                                                         Head(calls).seconds), t),
             dayKey, Tail(calls), t)

HandleEditingSubmit ==
    /\ editing.taskId # Null
    /\ ops < MaxSchedOps
    /\ ops' = ops + 1
    /\ TrackerStep("handleEditingSubmit")
    /\ requests' = submitRequests(editing,
                                  tasksOfSelected(schedule, selectedDayKey))
    /\ editing' = NoEdit
    /\ schedule' = applyRequests(schedule, selectedDayKey, requests', now)
    /\ EffectsOf(settings, schedule', selectedDayKey)

NextTracker ==
    \/ AdvanceClock
    \/ AddTask
    \/ SetActiveTask
    \/ DeleteTask
    \/ SetSelectedDay
    \/ DisplayTick
    \/ BeginEditingTask
    \/ EditField
    \/ HandleEditingSubmit

TrackerSpec == InitIntervals /\ [][NextTracker]_vars

----------------------------------------------------------------------------
(* Claims about the displayed stopwatch and the edit form                  *)

viewedTasks == tasksOfSelected(schedule, selectedDayKey)

TrackedTimeEditedOnlyWhenStopped ==
    [][StepOf("handleEditingSubmit") =>
          LET stopped == \E i \in 1..Len(viewedTasks) :
                            /\ viewedTasks[i].id = editing.taskId
                            /\ viewedTasks[i].timerStartedAt = Null
              asked == \E k \in 1..Len(requests') :
                            requests'[k].op = "updateTaskTrackedTime"
          IN  /\ asked => stopped
              /\ ~stopped /\ trim(editing.title) # <<>> =>
                    /\ requests' = <<TitleRequest(editing.taskId,
                                                  trim(editing.title))>>
                    /\ DOMAIN schedule' = DOMAIN schedule
                    /\ \A dayKey \in DOMAIN schedule :
                          /\ Len(schedule'[dayKey].tasks) =
                                Len(schedule[dayKey].tasks)
                          /\ \A i \in 1..Len(schedule[dayKey].tasks) :
                                schedule'[dayKey].tasks[i].trackedSeconds =
                                   schedule[dayKey].tasks[i].trackedSeconds]_vars

\* the form of a running task was submitted: the title update alone
SubmitWhileRunningWitness ==
    /\ lastOp = "handleEditingSubmit"
    /\ Len(requests) = 1
    /\ requests[1].op = "updateTaskTitle"
    /\ \E i \in 1..Len(viewedTasks) :
          /\ viewedTasks[i].id = requests[1].taskId
          /\ viewedTasks[i].timerStartedAt # Null

\* the form of a task that had been deleted was submitted
SubmitDeletedWitness ==
    /\ lastOp = "handleEditingSubmit"
    /\ Len(requests) = 1
    /\ \A i \in 1..Len(viewedTasks) : viewedTasks[i].id # requests[1].taskId

\* the form of a stopped task was submitted: both updates
SubmitWhileStoppedWitness ==
    /\ lastOp = "handleEditingSubmit"
    /\ Len(requests) = 2
    /\ requests[2].op = "updateTaskTrackedTime"

\* C39: the edit form of a stopped task, submitted with the hours and minutes
\* as the form showed them for the task's trackedSeconds, asks for those
\* trackedSeconds: hoursMinutesToSeconds(secondsToHoursMinutes(s)) = s
UnchangedFormKeepsTrackedSeconds ==
    [][StepOf("handleEditingSubmit") =>
          \A i \in 1..Len(viewedTasks) :
             LET task == viewedTasks[i]
                 shown == secondsToHoursMinutes(task.trackedSeconds)
             IN  /\ task.id = editing.taskId
                 /\ task.timerStartedAt = Null
                 /\ editing.hours = shown.hours
                 /\ editing.minutes = shown.minutes
                 => \A k \in 1..Len(requests') :
                       requests'[k].op = "updateTaskTrackedTime" =>
                          requests'[k].seconds = task.trackedSeconds]_vars

\* the same holds of tasks whose trackedSeconds are whole minutes
UnchangedFormKeepsWholeMinutes ==
    [][StepOf("handleEditingSubmit") =>
          \A i \in 1..Len(viewedTasks) :
             LET task == viewedTasks[i]
                 shown == secondsToHoursMinutes(task.trackedSeconds)
             IN  /\ task.id = editing.taskId
                 /\ task.timerStartedAt = Null
                 /\ task.trackedSeconds % 60 = 0
                 /\ editing.hours = shown.hours
                 /\ editing.minutes = shown.minutes
                 => \A k \in 1..Len(requests') :
                       requests'[k].op = "updateTaskTrackedTime" =>
                          requests'[k].seconds = task.trackedSeconds]_vars

----------------------------------------------------------------------------
(* useKeyboardShortcut                                                     *)

\* a key is the characters of event.key
lowerCase(char) ==
    IF char = "A" THEN "a" ELSE IF char = "F" THEN "f" ELSE char

toLowerCase(key) == [i \in 1..Len(key) |-> lowerCase(key[i])]

RECURSIVE join(_)
join(pressed) == IF pressed = <<>> THEN <<>> ELSE Head(pressed) \o join(Tail(pressed))

\* array.slice(-n)
lastOf(seq, n) ==
    IF Len(seq) <= n THEN seq ELSE SubSeq(seq, Len(seq) - n + 1, Len(seq))

targetSequence == [i \in 1..Len(shortcutKeys) |-> toLowerCase(shortcutKeys[i])]

\* the keys pressed, and the shortcuts registered
KeyInputs == {<<"a">>, <<"A">>, <<"2">>, <<"F", "1">>, <<"F", "1", "2">>}
ShortcutInputs == {<<>>, << <<"A">>, <<"2">> >>, << <<"F", "1">>, <<"2">> >>}

\* the seconds the keyboard is watched, and the delay of scheduleReset
MaxKeySeconds == 4
ResetDelay == 3000

InitKeys ==
    /\ now = StartOfTime
    /\ tzOffset = 0
    /\ InitEngine({DEFAULT_SETTINGS})
    /\ InitScheduler
    /\ InitMounted
    /\ InitHistory
    /\ InitTracker
    /\ shortcutKeys \in ShortcutInputs
    /\ enabled \in BOOLEAN
    /\ sequenceRef = <<>>
    /\ timeoutRef = Null
    /\ fired = FALSE

\* a step of the hook: the components of the countdown and of the schedule
\* are not rendered
KeyStep(name, key) ==
    /\ lastOp' = name
    /\ lastArg' = [NoArg EXCEPT !.title = key]
    /\ emitted' = <<>>
    /\ logged' = <<>>
    /\ UNCHANGED <<timerVars, schedVars, nextId, tzOffset, storeVars, queue,
                   trackerVars, ran, ranAtEmit, focusExits, ops, shortcutKeys>>

\* handleKeyDown at time t: the refs and whether callback was called
handleKeyDown(key, t) ==
    LET pressed == lastOf(Append(sequenceRef, toLowerCase(key)),
                          Len(targetSequence))
    IN  IF ~enabled \/ Len(targetSequence) = 0
        THEN [sequenceRef |-> sequenceRef, timeoutRef |-> timeoutRef,
              fired |-> FALSE]
        ELSE IF join(pressed) = join(targetSequence)
        THEN [sequenceRef |-> <<>>, timeoutRef |-> Null, fired |-> TRUE]
        ELSE [sequenceRef |-> pressed, timeoutRef |-> t + ResetDelay,
              fired |-> FALSE]

\* a key is pressed; a timeout that is due has run before
KeyDown ==
    /\ timeoutRef # Null => now < timeoutRef
    /\ \E key \in KeyInputs :
          /\ KeyStep("keydown", key)
          /\ \E h \in {handleKeyDown(key, now)} :
                /\ sequenceRef' = h.sequenceRef
                /\ timeoutRef' = h.timeoutRef
                /\ fired' = h.fired
    /\ UNCHANGED <<now, enabled>>

\* the callback of the setTimeout of scheduleReset
ResetTimeout ==
    /\ timeoutRef # Null
    /\ now >= timeoutRef
    /\ KeyStep("timeout", <<>>)
    /\ sequenceRef' = <<>>
    /\ timeoutRef' = Null
    /\ fired' = FALSE
    /\ UNCHANGED <<now, enabled>>

\* a second passes, no timeout being due
KeyWait ==
    /\ timeoutRef # Null => now < timeoutRef
    /\ now + 1000 <= StartOfTime + MaxKeySeconds * 1000
    /\ KeyStep("wait", <<>>)
    /\ now' = now + 1000
    /\ fired' = FALSE
    /\ UNCHANGED <<enabled, sequenceRef, timeoutRef>>

\* the caller renders with the other value of enabled: the cleanup of the
\* effect and its new run
SetEnabled ==
    /\ timeoutRef # Null => now < timeoutRef
    /\ KeyStep("setEnabled", <<>>)
    /\ enabled' = ~enabled
    /\ sequenceRef' = <<>>
    /\ timeoutRef' = Null
    /\ fired' = FALSE
    /\ UNCHANGED now

NextKeys ==
    \/ KeyDown
    \/ ResetTimeout
    \/ KeyWait
    \/ SetEnabled

KeySpec == InitKeys /\ [][NextKeys]_vars

\* the presses remembered after one more press of key
remembered(key) == Append(sequenceRef, toLowerCase(key))

\* the last presses are the keys of the shortcut, whatever their case
lastPressesAreKeys(key) ==
    /\ Len(remembered(key)) >= Len(targetSequence)
    /\ lastOf(remembered(key), Len(targetSequence)) = targetSequence

ShortcutFiresOnItsKeys ==
    /\ lastOp' = "keydown" =>
          /\ fired' <=> /\ enabled
                        /\ shortcutKeys # <<>>
                        /\ lastPressesAreKeys(lastArg'.title)
          /\ fired' => sequenceRef' = <<>> /\ timeoutRef' = Null
          /\ enabled /\ shortcutKeys # <<>> /\ ~fired' =>
                timeoutRef' = now + ResetDelay
    /\ lastOp' = "timeout" =>
          /\ now = timeoutRef
          /\ sequenceRef' = <<>>
    /\ sequenceRef # <<>> =>
          /\ timeoutRef # Null
          /\ now <= timeoutRef
    /\ ~enabled' \/ shortcutKeys = <<>> =>
          /\ ~fired'
          /\ sequenceRef' = <<>>

\* C40: while enabled the callback fires exactly when the last len(keys)
\* presses are the keys, whatever their case; the remembered presses are
\* dropped 3 seconds after the latest press and at once after firing; while
\* disabled or with no keys no press fires and nothing is remembered
ShortcutFiresExactlyOnItsKeys == [][ShortcutFiresOnItsKeys]_vars

\* the same for shortcuts whose keys are single characters
SingleCharacterShortcutFiresOnItsKeys ==
    [][(\A i \in 1..Len(shortcutKeys) : Len(shortcutKeys[i]) = 1)
          => ShortcutFiresOnItsKeys]_vars

====
